---- MODULE Spec2Model ----
(***************************************************************************)
(* Model of the twilio-manager gateway (app/gateways/twilio_gateway.py)    *)
(* and of the menu loops of its CLI (app/interfaces/cli/main_menu.py and   *)
(* settings_menu.py).                                                      *)
(*                                                                         *)
(* Python strings that the code inspects character by character (region    *)
(* names, region codes, area codes, search patterns) are sequences of      *)
(* one-character strings, so that lower(), isdigit(), len(), int() and     *)
(* the wildcard wrapping are computed, not assumed.  None and '' are both  *)
(* the empty sequence: the code only ever tests these arguments for        *)
(* truthiness.  A Python dict is a function whose DOMAIN is its key set.   *)
(***************************************************************************)
EXTENDS Integers, Sequences, FiniteSets, TLC

VARIABLES
    pc,            \* position of the caller/gateway: idle, built, waiting, returned
    country_code,  \* argument of search_available_numbers
    number_type,   \* argument, then the mapped API path segment (line 44)
    region,        \* argument
    area_code,     \* argument
    pattern,       \* argument
    page,          \* argument
    limit,         \* argument
    params,        \* the query parameters built by lines 50-106
    response,      \* outcome of requests.get / raise_for_status / json
    result,        \* the value returned to the caller
    raised,        \* exception class that escaped to the caller, or "none"
    self_account_sid,  \* TwilioGateway._account_sid
    self_auth_token,   \* TwilioGateway._auth_token
    self_client,       \* TwilioGateway._client: "none" or "Client"
    method,        \* the gateway method that is running or has returned
    provider_calls,\* the provider calls the method made, in order
    account_sid,   \* argument of TwilioGateway.__init__
    auth_token,    \* argument of TwilioGateway.__init__
    menu,          \* position of the CLI: the panel or prompt it is at
    prev_menu,     \* the position the last CLI step started from
    event,         \* the last CLI step: input, step, exception, interrupt
    choice,        \* the line the last prompt() returned
    exit_status,   \* status the process exited with, or -1 while it runs
    country_data,  \* the module-level COUNTRY_DATA table the gateway imports
    call_args,     \* arguments of the running pass-through method, and what
                   \* the provider's list call returns to it
    invoked,       \* the use-case operation SettingsMenu.show invoked while it
                   \* handled the last input, with its argument and outcome
    subaccounts,   \* local of the Subaccount Management loop (line 327)
    api_keys,      \* local of the API Keys loop (line 672)
    idx,           \* local idx of the entry awaiting confirmation, or -1
    menu_settings, \* local settings of the Security & Compliance loop (line 74)
    provider_rules,\* the rule and credential lists the provider holds
    current_page,  \* local of a table view (lines 296, 865), 0 outside a view
    logs           \* local of a table view: the rows (lines 286, 853)

searchVars == <<country_code, number_type, region, area_code, pattern, page,
                limit, params, response>>

credentialVars == <<account_sid, auth_token, self_account_sid,
                    self_auth_token, self_client>>

gatewayVars == <<credentialVars, country_data>>

panelVars == <<invoked, subaccounts, api_keys, idx, menu_settings,
               provider_rules, current_page, logs>>

menuVars == <<menu, prev_menu, event, choice, exit_status, panelVars>>

vars == <<pc, country_code, number_type, region, area_code, pattern, page,
          limit, params, response, result, raised, self_account_sid,
          self_auth_token, self_client, method, provider_calls, account_sid,
          auth_token, menu, prev_menu, event, choice, exit_status,
          country_data, call_args, panelVars>>

----------------------------------------------------------------------------
(* Bounds of the model *)

MaxPatternLen == 8
MaxCasingLen == 4
MaxPage == 2
MaxNumbers == 2
MaxItems == 2
MaxFail == 6
MaxLogs == 21
MaxRules == 3

----------------------------------------------------------------------------
(* Python string primitives *)

EmptyStr == <<>>

EmptyDict == <<>>

UpperLetters == <<"A","B","C","D","E","F","G","H","I","J","K","L","M",
                  "N","O","P","Q","R","S","T","U","V","W","X","Y","Z">>

LowerLetters == <<"a","b","c","d","e","f","g","h","i","j","k","l","m",
                  "n","o","p","q","r","s","t","u","v","w","x","y","z">>

Digits == <<"0","1","2","3","4","5","6","7","8","9">>

\* str.lower() on one character
LowerChar(c) ==
    IF \E i \in 1..Len(UpperLetters) : UpperLetters[i] = c
    THEN LowerLetters[CHOOSE i \in 1..Len(UpperLetters) : UpperLetters[i] = c]
    ELSE c

\* str.upper() on one character (used only to enumerate input casings)
UpperChar(c) ==
    IF \E i \in 1..Len(LowerLetters) : LowerLetters[i] = c
    THEN UpperLetters[CHOOSE i \in 1..Len(LowerLetters) : LowerLetters[i] = c]
    ELSE c

\* str.lower()
Lower(s) == [i \in 1..Len(s) |-> LowerChar(s[i])]

Upper(s) == [i \in 1..Len(s) |-> UpperChar(s[i])]

\* str.isdigit(): non-empty and every character a decimal digit
IsDigit(s) ==
    /\ Len(s) > 0
    /\ \A i \in 1..Len(s) : \E d \in 1..Len(Digits) : Digits[d] = s[i]

DigitValue(c) == (CHOOSE d \in 1..Len(Digits) : Digits[d] = c) - 1

\* int(s) for a string of decimal digits
RECURSIVE PyInt(_)
PyInt(s) ==
    IF Len(s) = 0 THEN 0
    ELSE 10 * PyInt(SubSeq(s, 1, Len(s) - 1)) + DigitValue(s[Len(s)])

\* dict.get(k, default)
Get(d, k, default) == IF k \in DOMAIN d THEN d[k] ELSE default

\* d[k] = v
Put(d, k, v) == [x \in (DOMAIN d) \cup {k} |-> IF x = k THEN v ELSE d[x]]

\* bool(x) for a string argument: None and '' are falsy
Truthy(s) == Len(s) > 0

----------------------------------------------------------------------------
(* The country reference table (app/models/country_data.py).  Each country *)
(* maps to its regions in insertion order; a region has a name (the dict   *)
(* key), a code and a set of integer area codes.                           *)

COUNTRY_DATA ==
    [c \in {"US", "CA", "GB", "AU"} |->
        CASE c = "US" ->
               [regions |-> <<
                   [name |-> <<"O","h","i","o">>, code |-> <<"O","H">>,
                    area_codes |-> {216, 614}],
                   [name |-> <<"U","t","a","h">>, code |-> <<"U","T">>,
                    area_codes |-> {801, 435}] >>]
          [] c = "CA" ->
               [regions |-> <<
                   [name |-> <<"Y","u","k","o","n">>, code |-> <<"Y","T">>,
                    area_codes |-> {867}],
                   [name |-> <<"O","n","t","a","r","i","o">>, code |-> <<"O","N">>,
                    area_codes |-> {416, 226}] >>]
          [] c = "GB" ->
               [regions |-> <<
                   [name |-> <<"K","e","n","t">>, code |-> <<"K","E","N">>,
                    area_codes |-> {}],
                   [name |-> <<"F","i","f","e">>, code |-> <<"F","I","F">>,
                    area_codes |-> {}] >>]
          [] c = "AU" ->
               [regions |-> <<
                   [name |-> <<"V","i","c","t","o","r","i","a">>,
                    code |-> <<"V","I","C">>, area_codes |-> {}] >>]]

\* COUNTRY_DATA[c]["regions"].keys(), in iteration order
RegionKeys(c) ==
    [i \in 1..Len(COUNTRY_DATA[c].regions) |-> COUNTRY_DATA[c].regions[i].name]

\* region in COUNTRY_DATA[c]["regions"]
HasRegion(c, r) == \E i \in 1..Len(RegionKeys(c)) : RegionKeys(c)[i] = r

\* COUNTRY_DATA[c]["regions"][r]
RegionData(c, r) ==
    COUNTRY_DATA[c].regions[CHOOSE i \in 1..Len(RegionKeys(c)) : RegionKeys(c)[i] = r]

\* index of the first element of a sequence in a set of indices, 0 when none:
\* the position at which a for ... if ...: break loop stops
FirstIn(S) == IF S = {} THEN 0 ELSE CHOOSE i \in S : \A j \in S : i <= j

----------------------------------------------------------------------------
(* search_available_numbers: the query builder (lines 38-106)              *)

AreaCodeLen == 3

WildcardMaxLen == 7

\* type_map.get(number_type, "Local")
type_map(t) ==
    CASE t = "local" -> "Local"
      [] t = "mobile" -> "Mobile"
      [] t = "tollfree" -> "TollFree"
      [] OTHER -> "Local"

\* number_type.lower() on the mapped path segment
TypeLower(t) ==
    CASE t = "Local" -> "local"
      [] t = "Mobile" -> "mobile"
      [] t = "TollFree" -> "tollfree"

\* params = {"PageSize": limit, "Page": page}
BaseParams(pg, lim) == ("PageSize" :> lim) @@ ("Page" :> pg)

\* first region key equal to r ignoring case: for name in keys(): if
\* name.lower() == region.lower(): ...; break
CaseInsensitiveKey(c, r) ==
    FirstIn({i \in 1..Len(RegionKeys(c)) : Lower(RegionKeys(c)[i]) = Lower(r)})

\* mutant: an unmatched name is sent as the caller typed it
RegionFilterGBPassThrough(p, r) ==
    LET i == CaseInsensitiveKey("GB", r)
    IN  IF i # 0 THEN Put(p, "InRegion", RegionKeys("GB")[i])
        ELSE Put(p, "InRegion", r)

\* mutant: a matched name is sent in the caller's casing
RegionFilterGBUserCasing(p, r) ==
    LET i == CaseInsensitiveKey("GB", r)
    IN  IF i # 0 THEN Put(p, "InRegion", r) ELSE p

\* GB branch: the canonically cased region name, when one matches
RegionFilterGB(p, r) ==
    LET i == CaseInsensitiveKey("GB", r)
    IN  IF i # 0 THEN Put(p, "InRegion", RegionKeys("GB")[i]) ELSE p

\* US branch: exact key first, then the case-insensitive scan; the code
RegionFilterUS(p, r) ==
    IF HasRegion("US", r)
    THEN Put(p, "InRegion", RegionData("US", r).code)
    ELSE LET i == CaseInsensitiveKey("US", r)
         IN  IF i # 0
             THEN Put(p, "InRegion", RegionData("US", RegionKeys("US")[i]).code)
             ELSE p

\* CA branch: regions.get(region, {}).get("code"), added when truthy
RegionFilterCA(p, r) ==
    LET region_code == IF HasRegion("CA", r) THEN RegionData("CA", r).code
                       ELSE EmptyStr
    IN  IF Truthy(region_code) THEN Put(p, "InRegion", region_code) ELSE p

\* lines 55-79: the region filter
RegionFilter(p, c, r) ==
    IF Truthy(r)
    THEN CASE c = "GB" -> RegionFilterGB(p, r)
           [] c = "US" -> RegionFilterUS(p, r)
           [] c = "CA" -> RegionFilterCA(p, r)
           [] OTHER -> p
    ELSE p

\* mutant: the explicit area code is sent for every country
AreaCodeFilterAnyCountry(p, c, a) ==
    IF Truthy(a) THEN Put(p, "AreaCode", a) ELSE p

\* lines 81-84: the explicit area code filter
AreaCodeFilter(p, c, a) ==
    IF Truthy(a) /\ c \in {"US", "CA"} THEN Put(p, "AreaCode", a) ELSE p

\* mutant: only the first region's area codes are collected
AreaCodesFirstRegion(c) == COUNTRY_DATA[c].regions[1].area_codes

\* lines 91-93: the union of the area codes of every region of the country
AreaCodes(c) ==
    UNION {COUNTRY_DATA[c].regions[i].area_codes :
             i \in 1..Len(COUNTRY_DATA[c].regions)}

\* mutant: the union is accumulated in the first region's own collection
AreaCodeUnionInPlace(table, c) ==
    [table EXCEPT ![c].regions[1].area_codes = AreaCodes(c)]

\* lines 91-93: area_codes is a fresh local set() and update() writes to it;
\* the regions are only read
AreaCodeUnion(table, c) == table

\* lines 55-106: what building the query leaves in the table; the .get()
\* chains and the loops over items()/values() read, the three-digit branch
\* collects the area codes
TableAfterBuild(table, c, pat) ==
    IF Truthy(pat) /\ c \in {"US", "CA"} /\ Len(pat) = AreaCodeLen
         /\ IsDigit(pat)
    THEN AreaCodeUnion(table, c)
    ELSE table

\* f"*{pattern}*"
Wildcard(pat) == <<"*">> \o pat \o <<"*">>

\* mutant: the length test is strict (len(pattern) < 7)
GenericPatternFilterStrict(p, pat) ==
    IF IsDigit(pat)
    THEN IF Len(pat) < WildcardMaxLen
         THEN Put(p, "Contains", Wildcard(pat))
         ELSE Put(p, "Contains", pat)
    ELSE p

\* lines 100-106: a pattern that is not a US/CA three-digit pattern
GenericPatternFilter(p, pat) ==
    IF IsDigit(pat)
    THEN IF Len(pat) <= WildcardMaxLen
         THEN Put(p, "Contains", Wildcard(pat))
         ELSE Put(p, "Contains", pat)
    ELSE p

\* lines 86-106: the pattern filter
PatternFilter(p, c, pat) ==
    IF Truthy(pat)
    THEN IF c \in {"US", "CA"} /\ Len(pat) = AreaCodeLen /\ IsDigit(pat)
         THEN IF PyInt(pat) \in AreaCodes(c)
              THEN Put(p, "AreaCode", pat)
              ELSE Put(p, "Contains", Wildcard(pat))
         ELSE GenericPatternFilter(p, pat)
    ELSE p

\* lines 50-106: the query parameters of one search
BuildParams(c, r, a, pat, pg, lim) ==
    PatternFilter(AreaCodeFilter(RegionFilter(BaseParams(pg, lim), c, r), c, a),
                  c, pat)

----------------------------------------------------------------------------
(* search_available_numbers: request and response normaliser (108-174)     *)

\* the exception classes the calls inside the try block raise:
\* requests.get (Timeout, ConnectionError), raise_for_status (HTTPError),
\* response.json (requests.exceptions.JSONDecodeError)
ExceptionOf(kind) ==
    CASE kind = "timeout" -> "Timeout"
      [] kind = "connection" -> "ConnectionError"
      [] kind = "http_error" -> "HTTPError"
      [] kind = "bad_json" -> "JSONDecodeError"

\* mutant: the handler names one subclass only (except requests.HTTPError)
RequestExceptionHTTPOnly == {"HTTPError"}

\* except requests.RequestException: every class above derives from it
RequestException == {"Timeout", "ConnectionError", "HTTPError", "JSONDecodeError"}

\* str(e)
ErrorText(kind) ==
    CASE kind = "timeout" -> "Read timed out."
      [] kind = "connection" -> "Failed to establish a new connection"
      [] kind = "http_error" -> "401 Client Error: Unauthorized for url"
      [] kind = "bad_json" -> "Expecting value: line 1 column 1 (char 0)"

\* lines 130-134: name of the first region whose code is api_region, else None
ReverseLookup(c, api_region) ==
    LET i == FirstIn({j \in 1..Len(COUNTRY_DATA[c].regions) :
                        COUNTRY_DATA[c].regions[j].code = api_region})
    IN  IF i # 0 THEN RegionKeys(c)[i] ELSE EmptyStr

\* mutant: the reverse lookup result is dropped, the raw code is shown
StateLabelRaw(c, api_region) == api_region

\* lines 139 and 154: the state label
StateLabel(c, api_region) ==
    IF c \in {"US", "CA"}
    THEN LET region_name == ReverseLookup(c, api_region)
         IN  IF Truthy(region_name) THEN region_name ELSE api_region
    ELSE api_region

\* mutant: the sms flag defaults to True
CapabilitiesSmsDefaultTrue(num) ==
    [voice |-> Get(Get(num, "capabilities", EmptyDict), "voice", FALSE),
     sms   |-> Get(Get(num, "capabilities", EmptyDict), "sms", TRUE),
     mms   |-> Get(Get(num, "capabilities", EmptyDict), "mms", FALSE)]

\* lines 141-145 and 156-160
Capabilities(num) ==
    [voice |-> Get(Get(num, "capabilities", EmptyDict), "voice", FALSE),
     sms   |-> Get(Get(num, "capabilities", EmptyDict), "sms", FALSE),
     mms   |-> Get(Get(num, "capabilities", EmptyDict), "mms", FALSE)]

\* lines 146 and 161
Price(num) == Get(num, "monthly_fee", "0.00")

\* lines 124-162: one normalised record
FormatNumber(c, t, num) ==
    [number        |-> num["phone_number"],
     friendly_name |-> Get(num, "friendly_name", ""),
     city          |-> Get(num, "locality", ""),
     state         |-> StateLabel(c, Get(num, "region", EmptyStr)),
     type          |-> TypeLower(t),
     capabilities  |-> Capabilities(num),
     price         |-> Price(num)]

\* mutant: the last candidate of the upstream list is dropped
SuccessResultTruncated(c, t, data) ==
    LET numbers == Get(data, "available_phone_numbers", <<>>)
    IN  [success |-> TRUE,
         numbers |-> [i \in 1..(IF Len(numbers) > 1 THEN Len(numbers) - 1
                                ELSE Len(numbers)) |->
                         FormatNumber(c, t, numbers[i])]]

\* lines 119-167: the success result
SuccessResult(c, t, data) ==
    LET numbers == Get(data, "available_phone_numbers", <<>>)
    IN  [success |-> TRUE,
         numbers |-> [i \in 1..Len(numbers) |-> FormatNumber(c, t, numbers[i])]]

\* lines 168-174: the failure result
FailureResult(kind) ==
    [success |-> FALSE, error |-> ErrorText(kind), numbers |-> <<>>]

----------------------------------------------------------------------------
(* Inputs of the callers and answers of the provider *)

CountryInputs == DOMAIN COUNTRY_DATA

NumberTypeInputs == {"none", "mobile"}

\* every upper/lower casing of a name
AllCasings(n) ==
    {[i \in 1..Len(n) |-> IF i \in S THEN UpperChar(n[i]) ELSE LowerChar(n[i])] :
       S \in SUBSET (1..Len(n))}

CasingsOf(n) ==
    IF Len(n) <= MaxCasingLen THEN AllCasings(n) ELSE {n, Lower(n), Upper(n)}

UnknownRegion == <<"A","t","l","a","n","t","i","s">>

\* no region, a name of no table, and the casings of the country's own names
RegionInputs(c) ==
    {EmptyStr, UnknownRegion}
      \cup UNION {CasingsOf(RegionKeys(c)[i]) : i \in 1..Len(RegionKeys(c))}

AreaCodeInputs == {EmptyStr, <<"8","0","1">>}

PatternDigits == {"2", "1", "6"}

Repeat(ch, n) == [i \in 1..n |-> ch]

\* short patterns over digits and a letter, every three-digit pattern over
\* the digits, and digit runs up to MaxPatternLen with and without a letter
PatternInputs ==
    UNION {[1..n -> PatternDigits \cup {"a"}] : n \in 0..(AreaCodeLen - 1)}
      \cup [1..AreaCodeLen -> PatternDigits]
      \cup {<<"2","1","a">>, <<"a","1","6">>}
      \cup {Repeat("6", n) : n \in (AreaCodeLen + 1)..MaxPatternLen}
      \cup {Repeat("6", n - 1) \o <<"a">> : n \in (AreaCodeLen + 1)..MaxPatternLen}

PageInputs == 1..MaxPage

LimitInputs == {5, 20}

\* the parts of an upstream candidate that may be present or omitted
RegionParts ==
    {EmptyDict, "region" :> <<"U","T">>, "region" :> <<"O","N">>}

CapabilityParts ==
    {EmptyDict,
     "capabilities" :> ("voice" :> TRUE),
     "capabilities" :> [voice |-> FALSE, sms |-> TRUE, mms |-> TRUE]}

FeeParts == {EmptyDict, "monthly_fee" :> "1.15"}

Candidates ==
    {[phone_number |-> "+15550100", friendly_name |-> "(555) 0100",
      locality |-> "Springfield"] @@ r @@ cp @@ f :
        r \in RegionParts, cp \in CapabilityParts, f \in FeeParts}

CandidateLists == UNION {[1..n -> Candidates] : n \in 0..MaxNumbers}

\* what requests.get, raise_for_status and json() can produce
Responses ==
    {[kind |-> k, data |-> EmptyDict] :
        k \in {"timeout", "connection", "http_error", "bad_json"}}
      \cup {[kind |-> "ok", data |-> EmptyDict]}
      \cup {[kind |-> "ok", data |-> ("available_phone_numbers" :> l)] :
               l \in CandidateLists}

NoResponse == [kind |-> "none", data |-> EmptyDict]

----------------------------------------------------------------------------
(* State machine *)

CredentialInputs == {"", "AC0001"}

\* no use-case operation was invoked
NoOperation == [op |-> "none"]

\* the rule lists of a settings record nobody has fetched
NoSettings == [ip_access_rules |-> <<>>, credential_lists |-> <<>>]

\* the locals of SettingsMenu.show outside the loops that own them
PanelClosed ==
    /\ invoked = NoOperation
    /\ subaccounts = <<>>
    /\ api_keys = <<>>
    /\ idx = -1
    /\ menu_settings = NoSettings
    /\ provider_rules = NoSettings
    /\ current_page = 0
    /\ logs = <<>>

Init ==
    /\ PanelClosed
    /\ pc = "start"
    /\ account_sid = ""
    /\ auth_token = ""
    /\ self_account_sid = ""
    /\ self_auth_token = ""
    /\ self_client = "none"
    /\ method = "none"
    /\ provider_calls = <<>>
    /\ menu = "not_started"
    /\ prev_menu = "not_started"
    /\ event = "none"
    /\ choice = ""
    /\ exit_status = -1
    /\ country_code = ""
    /\ number_type = ""
    /\ region = EmptyStr
    /\ area_code = EmptyStr
    /\ pattern = EmptyStr
    /\ page = 0
    /\ limit = 0
    /\ params = EmptyDict
    /\ response = NoResponse
    /\ result = EmptyDict
    /\ raised = "none"
    /\ country_data = COUNTRY_DATA
    /\ call_args = EmptyDict

\* mutant: the credentials are not checked before the client is created
CredentialsMissingNever(sid, tok) == FALSE

\* line 13: not account_sid or not auth_token
CredentialsMissing(sid, tok) == sid = "" \/ tok = ""

\* lines 11-20: TwilioGateway.__init__; on success the CLI starts
Construct ==
    /\ pc = "start"
    /\ \E sid \in CredentialInputs, tok \in CredentialInputs, client_ok \in BOOLEAN :
         /\ account_sid' = sid
         /\ auth_token' = tok
         /\ IF CredentialsMissing(sid, tok)
            THEN /\ raised' = "ValueError"
                 /\ pc' = "construct_failed"
                 /\ UNCHANGED <<self_account_sid, self_auth_token, self_client,
                                provider_calls, menu>>
            ELSE /\ self_account_sid' = sid
                 /\ self_auth_token' = tok
                 /\ provider_calls' = <<[call |-> "Client", arg |-> "", ok |-> client_ok]>>
                 /\ IF client_ok
                    THEN /\ self_client' = "Client"
                         /\ raised' = "none"
                         /\ pc' = "idle"
                         /\ menu' = "main_render"
                    ELSE /\ self_client' = "none"
                         /\ raised' = "RuntimeError"
                         /\ pc' = "construct_failed"
                         /\ UNCHANGED menu
    /\ UNCHANGED <<searchVars, result, method, prev_menu, event, choice,
                   exit_status, country_data, call_args, panelVars>>

\* the use-case layer (not part of the sources) calls the gateway while a
\* sub-menu is open: the search from PurchaseMenu, the rest from ManageMenu
GatewayIdle(m) == pc = "idle" /\ menu = m

\* lines 22-106: the call; the arguments are bound and the query is built
search_available_numbers ==
    /\ GatewayIdle("purchase_menu")
    /\ \E c \in CountryInputs, t \in NumberTypeInputs, a \in AreaCodeInputs,
          pat \in PatternInputs, pg \in PageInputs, lim \in LimitInputs :
         \E r \in RegionInputs(c) :
            /\ country_code' = c
            /\ number_type' = type_map(t)
            /\ region' = r
            /\ area_code' = a
            /\ pattern' = pat
            /\ page' = pg
            /\ limit' = lim
            /\ params' = BuildParams(c, r, a, pat, pg, lim)
            /\ country_data' = TableAfterBuild(country_data, c, pat)
    /\ pc' = "built"
    /\ method' = "search_available_numbers"
    /\ provider_calls' = <<>>
    /\ UNCHANGED <<response, result, raised, credentialVars, menuVars,
                   call_args>>

\* lines 110-114: requests.get sends the query; region, area_code, pattern,
\* page, limit and params are not read again
SendRequest ==
    /\ pc = "built"
    /\ pc' = "waiting"
    /\ region' = EmptyStr
    /\ area_code' = EmptyStr
    /\ pattern' = EmptyStr
    /\ page' = 0
    /\ limit' = 0
    /\ params' = EmptyDict
    /\ UNCHANGED <<country_code, number_type, response, result, raised,
                   gatewayVars, menuVars, method, provider_calls, call_args>>

\* lines 110-174: the request fails or answers, and the method returns
ReceiveResponse ==
    /\ pc = "waiting"
    /\ UNCHANGED <<gatewayVars, menuVars, method, provider_calls, call_args>>
    /\ \E resp \in Responses :
         /\ response' = resp
         /\ IF resp.kind = "ok"
            THEN /\ result' = SuccessResult(country_code, number_type, resp.data)
                 /\ raised' = "none"
            ELSE IF ExceptionOf(resp.kind) \in RequestException
                 THEN /\ result' = FailureResult(resp.kind)
                      /\ raised' = "none"
                 ELSE /\ result' = EmptyDict
                      /\ raised' = ExceptionOf(resp.kind)
    /\ pc' = "returned"
    /\ UNCHANGED <<country_code, number_type, region, area_code, pattern, page,
                   limit, params>>

\* the caller has the result; the call's locals are gone
Return ==
    /\ pc = "returned"
    /\ pc' = "idle"
    /\ country_code' = ""
    /\ number_type' = ""
    /\ response' = NoResponse
    /\ result' = EmptyDict
    /\ raised' = "none"
    /\ method' = "none"
    /\ provider_calls' = <<>>
    /\ call_args' = EmptyDict
    /\ UNCHANGED <<region, area_code, pattern, page, limit, params,
                   gatewayVars, menuVars>>

----------------------------------------------------------------------------
(* The SDK pass-through methods, lines 176-1030.  A method is an operator   *)
(* from what the provider does to [result, calls]: the value returned and   *)
(* the provider calls made, in order.  fail is the position, among the      *)
(* calls of the method, of the one call that raises TwilioRestException     *)
(* (none when it is not a position); items is the list the provider's       *)
(* list() calls return.                                                     *)

\* Python's None as a returned value
PyNone == [type |-> "NoneType"]

\* str(e) of a TwilioRestException
TwilioError == "TwilioRestException"

\* what the provider's list() calls can return
ItemLists == {[i \in 1..n |-> i] : n \in 0..MaxItems}

FailInputs == 0..MaxFail

Failed(names, fail) == fail \in 1..Len(names)

\* the calls of the script names that are made when call number fail raises
Calls(names, fail) ==
    [i \in 1..(IF Failed(names, fail) THEN fail ELSE Len(names)) |->
        [call |-> names[i], arg |-> "", ok |-> i # fail]]

\* {"success": False, "error": ...}
Failure(msg) == [success |-> FALSE, error |-> msg]

\* try: <calls>; return ok / except TwilioRestException: return err
Attempt(names, fail, ok, err) ==
    [result |-> IF Failed(names, fail) THEN err ELSE ok,
     calls  |-> Calls(names, fail)]

\* the display records built from a provider list
Records(items) == [i \in 1..Len(items) |-> [sid |-> items[i]]]

\* lines 176-191
purchase_number(fail) ==
    Attempt(<<"incoming_phone_numbers.create">>, fail,
            [success |-> TRUE, number |-> "number", sid |-> "sid"],
            Failure(TwilioError))

\* the call records with the argument of call number i filled in
WithArg(calls, i, a) ==
    [j \in DOMAIN calls |->
        IF j = i THEN [calls[j] EXCEPT !.arg = a] ELSE calls[j]]

\* mutant: the last match is the one deleted
FirstMatchLast(items) == items[Len(items)]

\* line 204: numbers[0]
FirstMatch(items) == items[1]

\* lines 193-213
release_number(fail, items) ==
    IF items = <<>>
    THEN Attempt(<<"incoming_phone_numbers.list">>, fail,
                 Failure("Number not found"), Failure(TwilioError))
    ELSE LET out == Attempt(<<"incoming_phone_numbers.list", "delete">>, fail,
                            [success |-> TRUE, message |-> "Released"],
                            Failure(TwilioError))
         IN  [out EXCEPT !.calls = WithArg(out.calls, 2, FirstMatch(items))]

\* lines 215-241
list_active_numbers(fail, items) ==
    Attempt(<<"incoming_phone_numbers.list">>, fail,
            [success |-> TRUE, numbers |-> Records(items)],
            [success |-> FALSE, error |-> TwilioError, numbers |-> <<>>])

\* lines 243-260
send_sms(fail) ==
    Attempt(<<"messages.create">>, fail,
            [success |-> TRUE, sid |-> "sid", status |-> "status"],
            Failure(TwilioError))

\* mutant: url and twiml are both sent when both are given
CallInstructionsBoth(url, twiml) ==
    (IF url # "" THEN "url" :> url ELSE EmptyDict)
      @@ (IF twiml # "" THEN "twiml" :> twiml ELSE EmptyDict)

\* lines 270-273: if url: call_params["url"] = url / elif twiml:
\* call_params["twiml"] = twiml
CallInstructions(url, twiml) ==
    IF url # "" THEN "url" :> url
    ELSE IF twiml # "" THEN "twiml" :> twiml
    ELSE EmptyDict

\* lines 262-290; url and twiml are "" when not given
make_call(fail, url, twiml) ==
    IF url = "" /\ twiml = ""
    THEN [result |-> Failure("Either url or twiml must be provided"),
          calls |-> <<>>]
    ELSE LET out == Attempt(<<"calls.create">>, fail,
                            [success |-> TRUE, sid |-> "sid",
                             status |-> "status"],
                            Failure(TwilioError))
         IN  [out EXCEPT
                !.calls = WithArg(out.calls, 1, CallInstructions(url, twiml))]

\* lines 292-322
get_messaging_logs(fail, items) ==
    Attempt(<<"messages.list">>, fail,
            [success |-> TRUE, messages |-> Records(items)],
            [success |-> FALSE, error |-> TwilioError, messages |-> <<>>])

\* lines 324-354
get_call_logs(fail, items) ==
    Attempt(<<"calls.list">>, fail,
            [success |-> TRUE, calls |-> Records(items)],
            [success |-> FALSE, error |-> TwilioError, calls |-> <<>>])

\* lines 356-384
get_number_config(fail, items) ==
    Attempt(<<"incoming_phone_numbers.list">>, fail,
            IF items = <<>> THEN Failure("Number not found")
            ELSE [success |-> TRUE, config |-> [sid |-> items[1]]],
            Failure(TwilioError))

\* lines 386-403: None when the number is not found or the provider fails,
\* the bare metadata record otherwise
get_number_metadata(fail, items) ==
    Attempt(<<"incoming_phone_numbers.list">>, fail,
            IF items = <<>> THEN PyNone
            ELSE [number |-> "number", sid |-> items[1]],
            PyNone)

\* lines 414-435
get_subaccounts(fail, items) ==
    Attempt(<<"api.accounts.list">>, fail,
            [success |-> TRUE, accounts |-> Records(items)],
            Failure(TwilioError))

\* lines 437-451
create_subaccount(fail) ==
    Attempt(<<"api.accounts.create">>, fail,
            [success |-> TRUE, sid |-> "sid", auth_token |-> "token",
             friendly_name |-> "name"],
            Failure(TwilioError))

\* lines 453-465
close_subaccount(fail) ==
    Attempt(<<"api.accounts.update">>, fail,
            [success |-> TRUE, message |-> "closed"], Failure(TwilioError))

\* lines 467-486
get_account_details(fail) ==
    Attempt(<<"api.accounts.fetch">>, fail,
            [success |-> TRUE, account |-> [sid |-> "sid"]],
            Failure(TwilioError))

\* lines 488-504
get_account_balance(fail) ==
    Attempt(<<"api.balance.fetch">>, fail,
            [success |-> TRUE, balance |-> [currency |-> "USD"]],
            Failure(TwilioError))

\* lines 506-539: the urls of the numbers, grouped by kind
get_webhook_settings(fail, items) ==
    Attempt(<<"incoming_phone_numbers.list">>, fail,
            [success |-> TRUE,
             webhooks |-> [voice |-> Records(items), sms |-> <<>>,
                           status |-> <<>>]],
            Failure(TwilioError))

\* lines 545-549: the webhook types of webhook_map
WebhookTypes == {"voice", "sms", "status"}

\* mutant: the numbers are updated last to first
UpdateOrderReversed(items) ==
    [i \in 1..Len(items) |-> items[Len(items) + 1 - i]]

\* lines 571-572: for number in numbers
UpdateOrder(items) == items

\* lines 541-582: every number is updated, in list order, until an update
\* raises
set_webhook_settings(fail, items, webhook_type) ==
    IF webhook_type \notin WebhookTypes
    THEN [result |-> Failure("Invalid webhook type"), calls |-> <<>>]
    ELSE IF items = <<>>
    THEN Attempt(<<"incoming_phone_numbers.list">>, fail,
                 Failure("No phone numbers found"), Failure(TwilioError))
    ELSE LET out == Attempt(<<"incoming_phone_numbers.list">>
                               \o [i \in 1..Len(items) |-> "number.update"],
                            fail,
                            [success |-> TRUE, message |-> "webhook updated"],
                            Failure(TwilioError))
         IN  [out EXCEPT
                !.calls = [j \in DOMAIN out.calls |->
                             IF j > 1
                             THEN [out.calls[j] EXCEPT
                                     !.arg = UpdateOrder(items)[j - 1]]
                             ELSE out.calls[j]]]

\* lines 584-605
set_number_config(fail, items) ==
    IF items = <<>>
    THEN Attempt(<<"incoming_phone_numbers.list">>, fail,
                 Failure("Number not found"), Failure(TwilioError))
    ELSE Attempt(<<"incoming_phone_numbers.list", "number.update">>, fail,
                 [success |-> TRUE, message |-> "updated"],
                 Failure(TwilioError))

\* lines 607-624: one of the two log results, or both side by side
get_account_logs(fail, items, log_type) ==
    CASE log_type = "messages" -> get_messaging_logs(fail, items)
      [] log_type = "calls" -> get_call_logs(fail, items)
      [] OTHER ->
           LET m == get_messaging_logs(fail, items)
               c == get_call_logs(fail - Len(m.calls), items)
           IN  [result |-> [messages |-> m.result, calls |-> c.result],
                calls  |-> m.calls \o c.calls]

\* lines 626-665
get_security_settings(fail, items) ==
    Attempt(<<"api.accounts.fetch", "sip.ip_access_control_lists.list",
              "sip.credential_lists.list">>, fail,
            [success |-> TRUE,
             settings |-> [account_status |-> "active", auth_type |-> "basic",
                           ip_access_rules |-> Records(items),
                           credential_lists |-> Records(items)]],
            Failure(TwilioError))

\* lines 679-688 / 693-702: one update or create per rule, in list order
RuleScript(kind, rules) ==
    [i \in 1..Len(rules) |->
        CASE kind = "ip" /\ "sid" \in DOMAIN rules[i] ->
               "sip.ip_access_control_lists.update"
          [] kind = "ip" -> "sip.ip_access_control_lists.create"
          [] "sid" \in DOMAIN rules[i] -> "sip.credential_lists.update"
          [] OTHER -> "sip.credential_lists.create"]

\* lines 682, 687, 696, 701: rule["friendly_name"] raises KeyError for the
\* first rule without that key, before the rule's provider call is made
FirstWithoutName(rules) ==
    FirstIn({i \in 1..Len(rules) : "friendly_name" \notin DOMAIN rules[i]})

\* lines 667-712
update_security_settings(fail, settings) ==
    LET ip    == Get(settings, "ip_access_rules", <<>>)
        cred  == Get(settings, "credential_lists", <<>>)
        ipBad == FirstWithoutName(ip)
        crBad == FirstWithoutName(cred)
        names == <<"api.accounts.update">> \o RuleScript("ip", ip)
                   \o RuleScript("cred", cred)
        \* the calls reached before a KeyError ends the method
        reach == IF ipBad # 0 THEN ipBad
                 ELSE IF crBad # 0 THEN 1 + Len(ip) + crBad - 1
                 ELSE Len(names)
        made  == SubSeq(names, 1, reach)
    IN  IF Failed(made, fail)
        THEN [result |-> Failure(TwilioError), calls |-> Calls(made, fail),
              raised |-> "none"]
        ELSE IF ipBad # 0 \/ crBad # 0
        THEN [result |-> EmptyDict, calls |-> Calls(made, 0),
              raised |-> "KeyError"]
        ELSE [result |-> [success |-> TRUE, message |-> "updated"],
              calls |-> Calls(made, 0), raised |-> "none"]

\* lines 714-739
get_system_logs(fail, items) ==
    Attempt(<<"monitor.events.list">>, fail,
            [success |-> TRUE, logs |-> Records(items)],
            Failure(TwilioError))

\* lines 747-762: the usage categories, in request order
categories ==
    <<"calls", "calls-client", "calls-inbound", "calls-outbound", "sms",
      "sms-inbound", "sms-outbound", "mms", "mms-inbound", "mms-outbound",
      "phonenumbers", "phonenumbers-local", "phonenumbers-mobile",
      "phonenumbers-tollfree">>

\* the usage records the provider holds for the i-th category: one record
\* per category, some without any usage, with start dates that repeat
UsageRecords(i) ==
    <<[category |-> categories[i], start_date |-> i % 3,
       count |-> IF i % 2 = 1 THEN i ELSE 0,
       usage |-> 0, price |-> IF i = 4 THEN 1 ELSE 0]>>

\* mutant: the first rejected category ends the loop
RequestedCategoriesUntilRejection(rejected) ==
    LET bad == {i \in 1..Len(categories) : categories[i] \in rejected}
    IN  IF bad = {} THEN 1..Len(categories)
        ELSE 1..(CHOOSE i \in bad : \A j \in bad : i <= j)

\* lines 765-775: the loop requests every category; a rejected one is
\* skipped by `continue`
RequestedCategories(rejected) == 1..Len(categories)

\* lines 778-783: a record with a count, a usage or a price above zero
IsActive(record) == record.count > 0 \/ record.usage > 0 \/ record.price > 0

\* line 786: list.sort(key=start_date, reverse=True) is stable: records with
\* equal dates keep their order
RECURSIVE SortByDateDescending(_)
SortByDateDescending(records) ==
    IF records = <<>> THEN <<>>
    ELSE LET rest == SortByDateDescending(SubSeq(records, 1, Len(records) - 1))
             x    == records[Len(records)]
             k    == Cardinality({i \in 1..Len(rest) :
                                     rest[i].start_date >= x.start_date})
         IN  SubSeq(rest, 1, k) \o <<x>> \o SubSeq(rest, k + 1, Len(rest))

RECURSIVE Concat(_)
Concat(seqs) ==
    IF seqs = <<>> THEN <<>> ELSE Head(seqs) \o Concat(Tail(seqs))

\* lines 741-806; rejected is the set of categories the provider rejects
get_api_logs(rejected) ==
    LET requested   == RequestedCategories(rejected)
        n           == Cardinality(requested)
        all_records == Concat([i \in 1..n |->
                                  IF categories[i] \in rejected THEN <<>>
                                  ELSE UsageRecords(i)])
        active_records == SelectSeq(all_records, IsActive)
        sorted      == SortByDateDescending(active_records)
    IN  [result |-> [success |-> TRUE,
                     logs |-> [i \in 1..Len(sorted) |->
                                 [timestamp |-> sorted[i].start_date,
                                  category  |-> sorted[i].category,
                                  count     |-> sorted[i].count]]],
         calls |-> [i \in 1..n |->
                      [call |-> "usage.records.list", arg |-> categories[i],
                       ok |-> categories[i] \notin rejected]]]

\* lines 808-833
get_security_logs(fail, items) ==
    Attempt(<<"monitor.alerts.list">>, fail,
            [success |-> TRUE, logs |-> Records(items)],
            Failure(TwilioError))

\* lines 835-926: the nested results are read with .get(key, {}), whatever
\* their success flag; the format is looked at after all the calls
export_config(fail, items, format) ==
    LET head == <<"api.accounts.fetch", "incoming_phone_numbers.list">>
        webhooks == get_webhook_settings(fail - Len(head), items)
        security == get_security_settings(
                        fail - Len(head) - Len(webhooks.calls), items)
        config == [account  |-> [sid |-> "sid"],
                   numbers  |-> Records(items),
                   webhooks |-> Get(webhooks.result, "webhooks", EmptyDict),
                   security |-> Get(security.result, "settings", EmptyDict)]
    IN  IF Failed(head, fail)
        THEN [result |-> Failure(TwilioError), calls |-> Calls(head, fail)]
        ELSE [result |-> IF format \in {"json", "csv"}
                         THEN [success |-> TRUE,
                               config |-> [format |-> format, data |-> config]]
                         ELSE Failure("Unsupported format"),
              calls  |-> Calls(head, 0) \o webhooks.calls \o security.calls]

\* lines 949-953: numbers.list and, when the number exists, its update, for
\* every entry of config["numbers"]
RECURSIVE ImportNumbers(_, _)
ImportNumbers(num_configs, items) ==
    IF num_configs = <<>> THEN <<>>
    ELSE (IF items = <<>> THEN <<"incoming_phone_numbers.list">>
          ELSE <<"incoming_phone_numbers.list", "number.update">>)
           \o ImportNumbers(Tail(num_configs), items)

\* lines 956-959: set_webhook_settings for every hook; its result is dropped
RECURSIVE ImportHooks(_, _, _)
ImportHooks(hooks, fail, items) ==
    IF hooks = <<>> THEN <<>>
    ELSE LET first == set_webhook_settings(fail, items, Head(hooks).type)
         IN  first.calls
               \o ImportHooks(Tail(hooks), fail - Len(first.calls), items)

\* lines 928-973; config_data is the parsed document, with the one key
\* "malformed" when json.loads raises
import_config(fail, items, config_data, format) ==
    IF format # "json"
    THEN [result |-> Failure("Unsupported format"), calls |-> <<>>,
          raised |-> "none"]
    ELSE IF "malformed" \in DOMAIN config_data
    THEN [result |-> EmptyDict, calls |-> <<>>, raised |-> "JSONDecodeError"]
    ELSE
    LET config == config_data
        direct ==
            (IF "account" \in DOMAIN config
             THEN <<"api.accounts.update">> ELSE <<>>)
              \o ImportNumbers(Get(config, "numbers", <<>>), items)
        hooks == ImportHooks(Get(config, "webhooks", <<>>),
                             fail - Len(direct), items)
        security ==
            IF "security" \in DOMAIN config
            THEN update_security_settings(fail - Len(direct) - Len(hooks),
                                          config["security"])
            ELSE [result |-> EmptyDict, calls |-> <<>>, raised |-> "none"]
    IN  IF Failed(direct, fail)
        THEN [result |-> Failure(TwilioError), calls |-> Calls(direct, fail),
              raised |-> "none"]
        ELSE IF security.raised # "none"
        THEN [result |-> EmptyDict,
              calls |-> Calls(direct, 0) \o hooks \o security.calls,
              raised |-> security.raised]
        ELSE [result |-> [success |-> TRUE, message |-> "imported"],
              calls |-> Calls(direct, 0) \o hooks \o security.calls,
              raised |-> "none"]

\* lines 975-996
get_api_keys(fail, items) ==
    Attempt(<<"api.keys.list">>, fail,
            [success |-> TRUE, keys |-> Records(items)],
            Failure(TwilioError))

\* lines 998-1013
create_api_key(fail) ==
    Attempt(<<"new_keys.create">>, fail,
            [success |-> TRUE, sid |-> "sid", secret |-> "secret"],
            Failure(TwilioError))

\* lines 1015-1029
revoke_api_key(fail) ==
    Attempt(<<"api.keys.delete">>, fail,
            [success |-> TRUE, message |-> "revoked"], Failure(TwilioError))

----------------------------------------------------------------------------
(* The pass-through methods as steps: the call is made while ManageMenu is *)
(* open and returns at once.                                               *)

LogTypeInputs == {"messages", "calls", "none"}

UrlInputs == {"", "https://example.test/answer"}

TwimlInputs == {"", "<Response><Hangup/></Response>"}

WebhookTypeInputs == WebhookTypes \cup {"fax"}

FormatInputs == {"json", "csv", "xml"}

\* the settings SettingsMenu passes (lines 127-132, 182-184, 201-203)
SecuritySettingsInputs ==
    {[status |-> "active", auth_type |-> "basic"],
     [ip_access_rules |-> <<[friendly_name |-> "office"]>>],
     [ip_access_rules |-> <<[sid |-> "AL1", delete |-> TRUE]>>],
     [credential_lists |-> <<[sid |-> "CL1", delete |-> TRUE]>>],
     [credential_lists |-> <<[friendly_name |-> "staff"]>>]}

\* the sections a configuration document can have
ConfigSections ==
    [account  |-> [friendly_name |-> "main"],
     numbers  |-> <<[phone_number |-> "+15550100", friendly_name |-> "desk"]>>,
     webhooks |-> <<[type |-> "voice", url |-> "https://example.test/voice",
                     method |-> "POST"]>>,
     security |-> [account_status |-> "active", auth_type |-> "basic"]]

ConfigInputs ==
    {[k \in S |-> ConfigSections[k]] : S \in SUBSET DOMAIN ConfigSections}
      \cup {[malformed |-> TRUE]}

\* the method returns out.result after making out.calls, or raises
Returns(name, out) ==
    /\ pc' = "returned"
    /\ method' = name
    /\ result' = out.result
    /\ provider_calls' = out.calls
    /\ raised' = IF "raised" \in DOMAIN out THEN out.raised ELSE "none"
    /\ call_args' = IF "args" \in DOMAIN out THEN out.args ELSE EmptyDict
    /\ UNCHANGED <<searchVars, gatewayVars, menuVars>>

call_purchase_number ==
    /\ GatewayIdle("manage_menu")
    /\ \E fail \in FailInputs : Returns("purchase_number", purchase_number(fail))

call_release_number ==
    /\ GatewayIdle("manage_menu")
    /\ \E fail \in FailInputs, items \in ItemLists :
         Returns("release_number",
                 release_number(fail, items) @@ [args |-> [items |-> items]])

call_list_active_numbers ==
    /\ GatewayIdle("manage_menu")
    /\ \E fail \in FailInputs, items \in ItemLists :
         Returns("list_active_numbers", list_active_numbers(fail, items))

call_send_sms ==
    /\ GatewayIdle("manage_menu")
    /\ \E fail \in FailInputs : Returns("send_sms", send_sms(fail))

call_make_call ==
    /\ GatewayIdle("manage_menu")
    /\ \E fail \in FailInputs, url \in UrlInputs, twiml \in TwimlInputs :
         Returns("make_call",
                 make_call(fail, url, twiml)
                   @@ [args |-> [url |-> url, twiml |-> twiml]])

call_get_messaging_logs ==
    /\ GatewayIdle("manage_menu")
    /\ \E fail \in FailInputs, items \in ItemLists :
         Returns("get_messaging_logs", get_messaging_logs(fail, items))

call_get_call_logs ==
    /\ GatewayIdle("manage_menu")
    /\ \E fail \in FailInputs, items \in ItemLists :
         Returns("get_call_logs", get_call_logs(fail, items))

call_get_number_config ==
    /\ GatewayIdle("manage_menu")
    /\ \E fail \in FailInputs, items \in ItemLists :
         Returns("get_number_config", get_number_config(fail, items))

call_get_number_metadata ==
    /\ GatewayIdle("manage_menu")
    /\ \E fail \in FailInputs, items \in ItemLists :
         Returns("get_number_metadata", get_number_metadata(fail, items))

call_get_subaccounts ==
    /\ GatewayIdle("manage_menu")
    /\ \E fail \in FailInputs, items \in ItemLists :
         Returns("get_subaccounts", get_subaccounts(fail, items))

call_create_subaccount ==
    /\ GatewayIdle("manage_menu")
    /\ \E fail \in FailInputs :
         Returns("create_subaccount", create_subaccount(fail))

call_close_subaccount ==
    /\ GatewayIdle("manage_menu")
    /\ \E fail \in FailInputs :
         Returns("close_subaccount", close_subaccount(fail))

call_get_account_details ==
    /\ GatewayIdle("manage_menu")
    /\ \E fail \in FailInputs :
         Returns("get_account_details", get_account_details(fail))

call_get_account_balance ==
    /\ GatewayIdle("manage_menu")
    /\ \E fail \in FailInputs :
         Returns("get_account_balance", get_account_balance(fail))

call_get_webhook_settings ==
    /\ GatewayIdle("manage_menu")
    /\ \E fail \in FailInputs, items \in ItemLists :
         Returns("get_webhook_settings", get_webhook_settings(fail, items))

call_set_webhook_settings ==
    /\ GatewayIdle("manage_menu")
    /\ \E fail \in FailInputs, items \in ItemLists,
          webhook_type \in WebhookTypeInputs :
         Returns("set_webhook_settings",
                 set_webhook_settings(fail, items, webhook_type)
                   @@ [args |-> [items |-> items,
                                 webhook_type |-> webhook_type]])

call_set_number_config ==
    /\ GatewayIdle("manage_menu")
    /\ \E fail \in FailInputs, items \in ItemLists :
         Returns("set_number_config", set_number_config(fail, items))

call_get_account_logs ==
    /\ GatewayIdle("manage_menu")
    /\ \E fail \in FailInputs, items \in ItemLists, log_type \in LogTypeInputs :
         Returns("get_account_logs", get_account_logs(fail, items, log_type))

call_get_security_settings ==
    /\ GatewayIdle("manage_menu")
    /\ \E fail \in FailInputs, items \in ItemLists :
         Returns("get_security_settings", get_security_settings(fail, items))

call_update_security_settings ==
    /\ GatewayIdle("manage_menu")
    /\ \E fail \in FailInputs, settings \in SecuritySettingsInputs :
         Returns("update_security_settings",
                 update_security_settings(fail, settings)
                   @@ [args |-> [settings |-> settings]])

call_get_system_logs ==
    /\ GatewayIdle("manage_menu")
    /\ \E fail \in FailInputs, items \in ItemLists :
         Returns("get_system_logs", get_system_logs(fail, items))

call_get_api_logs ==
    /\ GatewayIdle("manage_menu")
    /\ \E rejected \in SUBSET {categories[i] : i \in 1..Len(categories)} :
         Returns("get_api_logs", get_api_logs(rejected))

call_get_security_logs ==
    /\ GatewayIdle("manage_menu")
    /\ \E fail \in FailInputs, items \in ItemLists :
         Returns("get_security_logs", get_security_logs(fail, items))

call_export_config ==
    /\ GatewayIdle("manage_menu")
    /\ \E fail \in FailInputs, items \in ItemLists, format \in FormatInputs :
         Returns("export_config", export_config(fail, items, format))

call_import_config ==
    /\ GatewayIdle("manage_menu")
    /\ \E fail \in FailInputs, items \in ItemLists,
          config_data \in ConfigInputs, format \in FormatInputs :
         Returns("import_config",
                 import_config(fail, items, config_data, format))

call_get_api_keys ==
    /\ GatewayIdle("manage_menu")
    /\ \E fail \in FailInputs, items \in ItemLists :
         Returns("get_api_keys", get_api_keys(fail, items))

call_create_api_key ==
    /\ GatewayIdle("manage_menu")
    /\ \E fail \in FailInputs : Returns("create_api_key", create_api_key(fail))

call_revoke_api_key ==
    /\ GatewayIdle("manage_menu")
    /\ \E fail \in FailInputs : Returns("revoke_api_key", revoke_api_key(fail))

----------------------------------------------------------------------------
(* MainMenu.show (main_menu.py) and SettingsMenu.show (settings_menu.py).  *)
(* A position is a prompt() call site, the main panel being rendered, an   *)
(* open PurchaseMenu/ManageMenu (their code is not part of the sources),   *)
(* or one of the three sys.exit calls.                                     *)

MenuInputs ==
    {"0", "1", "2", "3", "4", "5", "6", "7", "8", "a", "r", "n", "N", "p", "j",
     "c", ""}

\* the argument of the three sys.exit calls of MainMenu.show
ExitStatus(path) ==
    CASE path = "exit_option0" -> 0
      [] path = "exit_interrupt" -> 0
      [] path = "exit_fatal" -> 1

ExitPositions == {"exit_option0", "exit_interrupt", "exit_fatal"}

\* the loop head of Security & Compliance (lines 58-72): the settings are
\* fetched again; on an error the error panel is shown instead of the menu
SecurityLoop == {"sec_menu", "sec_error_prompt"}

\* int(choice) - 1 is a valid index of the displayed list for some list
\* lengths and not for others; int('') and int('a') raise ValueError
IsIndexInput(ch) == ch \in {"1", "2", "3", "4", "5", "6", "7", "8"}

\* mutant: a table view has no way back
LogViewNavigationNoBack(view, back, ch) == {view}

\* lines 306-321 and 875-891: the paginated table view; "0" breaks out of the
\* view loop, n/p/j/c and anything else stay in it
LogViewNavigation(view, back, ch) == IF ch = "0" THEN back ELSE {view}

\* settings_menu.py lines 30-1071: where the menu goes from prompt m on input
\* ch; a set, because the use-case results decide between several branches
SettingsNext(m, ch) ==
    CASE m = "settings_menu" ->
           CASE ch = "1" -> {"billing_prompt"}
             [] ch = "2" -> SecurityLoop
             [] ch = "3" -> {"sub_menu"}
             [] ch = "4" -> {"dev_menu"}
             [] ch = "5" -> {"logs_menu"}
             [] ch = "6" -> {"search_prompt"}
             [] ch = "7" -> {"config_menu"}
             [] ch = "8" -> {"diag_prompt"}
             [] ch = "0" -> {"main_render"}
             [] OTHER -> {"settings_menu"}
      [] m \in {"billing_prompt", "search_prompt", "diag_prompt",
                "sec_error_prompt"} -> {"settings_menu"}
      \* Security & Compliance, lines 57-322
      [] m = "sec_menu" ->
           CASE ch = "0" -> {"settings_menu"}
             [] ch = "1" -> {"sec_status_prompt"}
             [] ch = "2" -> {"ip_menu"}
             [] ch = "3" -> {"cred_menu"}
             [] ch = "4" -> {"sec_logs_error_prompt", "sec_logs_view"}
             [] OTHER -> SecurityLoop
      [] m = "sec_status_prompt" -> {"sec_auth_prompt"}
      [] m = "sec_auth_prompt" -> {"sec_result_prompt"}
      [] m \in {"sec_result_prompt", "sec_logs_error_prompt"} -> SecurityLoop
      [] m = "ip_menu" ->
           CASE ch = "0" -> SecurityLoop
             [] ch = "a" -> {"ip_add_prompt"}
             [] ch = "r" -> {"ip_remove_prompt"}
             [] OTHER -> {"ip_menu"}
      [] m \in {"ip_add_prompt", "ip_remove_prompt"} -> {"ip_menu"}
      [] m = "cred_menu" ->
           CASE ch = "0" -> SecurityLoop
             [] ch = "a" -> {"cred_add_prompt"}
             [] ch = "r" -> {"cred_remove_prompt"}
             [] OTHER -> {"cred_menu"}
      [] m \in {"cred_add_prompt", "cred_remove_prompt"} -> {"cred_menu"}
      [] m = "sec_logs_view" ->
           LogViewNavigation("sec_logs_view", SecurityLoop, ch)
      \* Subaccount Management, lines 324-512
      [] m = "sub_menu" ->
           CASE ch = "0" -> {"settings_menu"}
             [] ch = "1" -> {"sub_none_prompt", "sub_list_prompt"}
             [] ch = "2" -> {"sub_create_prompt"}
             [] ch = "3" -> {"sub_none_prompt", "sub_switch_select"}
             [] ch = "4" -> {"sub_none_prompt", "sub_close_select"}
             [] OTHER -> {"sub_menu"}
      [] m \in {"sub_none_prompt", "sub_list_prompt", "sub_result_prompt"} ->
           {"sub_menu"}
      [] m = "sub_create_prompt" ->
           IF ch = "0" THEN {"sub_menu"} ELSE {"sub_result_prompt"}
      [] m = "sub_switch_select" ->
           IF ch # "0" /\ IsIndexInput(ch)
           THEN {"sub_result_prompt", "sub_menu"} ELSE {"sub_menu"}
      [] m = "sub_close_select" ->
           IF ch # "0" /\ IsIndexInput(ch)
           THEN {"sub_close_confirm", "sub_menu"} ELSE {"sub_menu"}
      [] m = "sub_close_confirm" ->
           IF ch = "1" THEN {"sub_result_prompt"} ELSE {"sub_menu"}
      \* Developer Tools, lines 514-771
      [] m = "dev_menu" ->
           CASE ch = "0" -> {"settings_menu"}
             [] ch = "1" -> {"dev_creds_prompt"}
             [] ch = "2" -> {"webhook_menu"}
             [] ch = "3" -> {"dev_test_prompt"}
             [] ch = "4" -> {"sandbox_menu"}
             [] ch = "5" -> {"keys_menu"}
             [] OTHER -> {"dev_menu"}
      [] m \in {"dev_creds_prompt", "dev_test_prompt"} -> {"dev_menu"}
      [] m = "webhook_menu" ->
           CASE ch = "0" -> {"dev_menu"}
             [] ch \in {"1", "2", "3"} -> {"webhook_url_prompt"}
             [] OTHER -> {"webhook_menu"}
      [] m = "webhook_url_prompt" -> {"webhook_menu"}
      [] m = "sandbox_menu" ->
           CASE ch = "0" -> {"dev_menu"}
             [] ch = "3" -> {"sandbox_env_select"}
             [] OTHER -> {"sandbox_menu"}
      [] m = "sandbox_env_select" -> {"sandbox_menu"}
      [] m = "keys_menu" ->
           CASE ch = "0" -> {"dev_menu"}
             [] ch = "1" -> {"key_create_prompt"}
             [] ch = "2" -> {"key_revoke_select", "keys_menu"}
             [] OTHER -> {"keys_menu"}
      [] m = "key_create_prompt" ->
           IF ch = "0" THEN {"keys_menu"} ELSE {"key_result_prompt"}
      [] m = "key_result_prompt" -> {"keys_menu"}
      [] m = "key_revoke_select" ->
           IF ch # "0" /\ IsIndexInput(ch)
           THEN {"key_revoke_confirm", "keys_menu"} ELSE {"keys_menu"}
      [] m = "key_revoke_confirm" -> {"keys_menu"}
      \* Account Logs, lines 773-891
      [] m = "logs_menu" ->
           CASE ch = "0" -> {"settings_menu"}
             [] ch \in {"1", "2", "3"} -> {"logs_error_prompt", "logs_view"}
             [] OTHER -> {"logs_menu"}
      [] m = "logs_error_prompt" -> {"logs_menu"}
      [] m = "logs_view" -> LogViewNavigation("logs_view", {"logs_menu"}, ch)
      \* Configuration Management, lines 920-1037
      [] m = "config_menu" ->
           CASE ch = "0" -> {"settings_menu"}
             [] ch = "1" -> {"export_format_select"}
             [] ch = "2" -> {"import_format_select"}
             [] OTHER -> {"config_menu"}
      [] m = "export_format_select" ->
           IF ch \in {"1", "2"} THEN {"config_result_prompt"} ELSE {"config_menu"}
      [] m = "import_format_select" ->
           IF ch \in {"1", "2"} THEN {"import_data_prompt"} ELSE {"config_menu"}
      [] m = "import_data_prompt" ->
           IF ch = "0" THEN {"config_menu"} ELSE {"config_result_prompt"}
      [] m = "config_result_prompt" -> {"config_menu"}

SettingsPositions ==
    {"settings_menu", "billing_prompt", "search_prompt", "diag_prompt",
     "sec_error_prompt", "sec_menu", "sec_status_prompt", "sec_auth_prompt",
     "sec_result_prompt", "sec_logs_error_prompt", "ip_menu", "ip_add_prompt",
     "ip_remove_prompt", "cred_menu", "cred_add_prompt", "cred_remove_prompt",
     "sec_logs_view", "sub_menu", "sub_none_prompt", "sub_list_prompt",
     "sub_result_prompt", "sub_create_prompt", "sub_switch_select",
     "sub_close_select", "sub_close_confirm", "dev_menu", "dev_creds_prompt",
     "dev_test_prompt", "webhook_menu", "webhook_url_prompt", "sandbox_menu",
     "sandbox_env_select", "keys_menu", "key_create_prompt",
     "key_result_prompt", "key_revoke_select", "key_revoke_confirm",
     "logs_menu", "logs_error_prompt", "logs_view", "config_menu",
     "export_format_select", "import_format_select", "import_data_prompt",
     "config_result_prompt"}

\* positions inside the inner try of MainMenu.show (lines 30-42)
InnerTryPositions ==
    {"main_prompt", "purchase_menu", "manage_menu"} \cup SettingsPositions

\* positions inside the outer try only (line 25 and line 49)
OuterTryPositions == {"main_render", "error_prompt"}

RunningPositions == InnerTryPositions \cup OuterTryPositions

\* one step of the CLI
MenuMove(next, ev, ch) ==
    /\ prev_menu' = menu
    /\ menu' = next
    /\ event' = ev
    /\ choice' = ch
    /\ exit_status' = IF next \in ExitPositions THEN ExitStatus(next)
                      ELSE exit_status
    /\ UNCHANGED <<pc, searchVars, result, raised, gatewayVars, method,
                   provider_calls, call_args>>

\* a step outside SettingsMenu.show, or one that leaves it: its locals are gone
MenuStep(next, ev, ch) ==
    /\ MenuMove(next, ev, ch)
    /\ invoked' = NoOperation
    /\ subaccounts' = <<>>
    /\ api_keys' = <<>>
    /\ idx' = -1
    /\ menu_settings' = NoSettings
    /\ provider_rules' = NoSettings
    /\ current_page' = 0
    /\ logs' = <<>>

\* lines 17-29: the main panel is rendered
MainRender ==
    /\ pc = "idle" /\ menu = "main_render"
    /\ MenuStep("main_prompt", "step", choice)

\* lines 31-42: the choice prompt of the main menu
MainPrompt ==
    /\ pc = "idle" /\ menu = "main_prompt"
    /\ \E ch \in MenuInputs :
         MenuStep(CASE ch = "1" -> "purchase_menu"
                    [] ch = "2" -> "manage_menu"
                    [] ch = "3" -> "settings_menu"
                    [] ch = "0" -> "exit_option0"
                    [] OTHER -> "main_render",
                  "input", ch)

\* lines 33 and 35: PurchaseMenu.show / ManageMenu.show returns
SubMenuReturn ==
    /\ pc = "idle" /\ menu \in {"purchase_menu", "manage_menu"}
    /\ MenuStep("main_render", "step", choice)

\* the lists get_subaccounts, get_api_keys and get_security_settings return:
\* entries with a sid
Entries(n) == [i \in 1..n |-> [sid |-> i]]

EntryLists == {Entries(n) : n \in 0..MaxItems}

\* what get_security_settings returns in result["settings"] (line 74)
SettingsRecords ==
    {[ip_access_rules |-> a, credential_lists |-> b] :
        a \in EntryLists, b \in EntryLists}

\* what a log use case returns in result["logs"] (lines 286, 853)
LogRows == {[i \in 1..n |-> i] : n \in 0..MaxLogs}

\* int(choice) for the inputs int() accepts; the others raise ValueError
IntOf(ch) ==
    CASE ch = "0" -> 0 [] ch = "1" -> 1 [] ch = "2" -> 2 [] ch = "3" -> 3
      [] ch = "4" -> 4 [] ch = "5" -> 5 [] ch = "6" -> 6 [] ch = "7" -> 7
      [] ch = "8" -> 8

\* lines 478-479, 750-751, 198-199, 258-259: idx = int(choice) - 1 without a
\* ValueError and 0 <= idx < len(entries)
ValidIndex(ch, entries) ==
    /\ ch = "0" \/ IsIndexInput(ch)
    /\ 0 <= IntOf(ch) - 1
    /\ IntOf(ch) - 1 < Len(entries)

\* nav_choice.lower() for the inputs of the model
LowerChoice(ch) == IF ch = "N" THEN "n" ELSE ch

\* lines 309 and 878: current_page * 10
PageSize == 10

\* mutant: the next page is shown whether it has rows or not
PageAfterUnguarded(cur, rows, ch) ==
    IF LowerChoice(ch) = "n" THEN cur + 1
    ELSE IF LowerChoice(ch) = "p" /\ cur > 1 THEN cur - 1
    ELSE cur

\* lines 309-312 and 878-881: the page after an input of the table view
PageAfter(cur, rows, ch) ==
    IF LowerChoice(ch) = "n" /\ cur * PageSize < rows THEN cur + 1
    ELSE IF LowerChoice(ch) = "p" /\ cur > 1 THEN cur - 1
    ELSE cur

LogViews == {"sec_logs_view", "logs_view"}

\* the positions at which the locals of a loop are alive
SubaccountScope ==
    {"sub_menu", "sub_none_prompt", "sub_list_prompt", "sub_result_prompt",
     "sub_create_prompt", "sub_switch_select", "sub_close_select",
     "sub_close_confirm"}

ApiKeyScope ==
    {"keys_menu", "key_create_prompt", "key_result_prompt",
     "key_revoke_select", "key_revoke_confirm"}

RuleMenus ==
    {"ip_menu", "ip_add_prompt", "ip_remove_prompt", "cred_menu",
     "cred_add_prompt", "cred_remove_prompt"}

SecurityScope ==
    {"sec_menu", "sec_status_prompt", "sec_auth_prompt"} \cup RuleMenus

\* the rule list a position of the rule sub-menus works on
RuleKind(m) ==
    IF m \in {"ip_menu", "ip_add_prompt", "ip_remove_prompt"}
    THEN "ip_access_rules" ELSE "credential_lists"

\* lines 493, 765, 428, 201-202, 261-262: entries[idx]['sid']
SelectedSid(entries, i) == entries[i + 1].sid

\* the prompts of lines 491 and 763; idx is kept while the answer is handled
ConfirmPrompts == {"sub_close_confirm", "key_revoke_confirm"}

Operation(name, a) == [op |-> name, arg |-> a]

\* lines 180-184 and 240-244: the name is passed on as it was typed
InvokedRuleAdd(m, ch) ==
    Operation("update_security_settings",
              RuleKind(m) :> <<[friendly_name |-> ch]>>)

\* mutant: every answer but "0" confirms
ConfirmedUnlessBack(ch) == ch # "0"

\* lines 492 and 764: confirm == "1"
Confirmed(ch) == ch = "1"

\* settings_menu.py lines 30-1071: the use-case operation that changes state
\* and is invoked between the answer ch to prompt m and the next prompt
Invoked(m, ch) ==
    CASE m = "sec_auth_prompt" ->
           \* lines 115-132; choice is the status typed at line 115
           Operation("update_security_settings",
                     [status    |-> IF choice # "" THEN choice
                                    ELSE "account_status",
                      auth_type |-> IF ch # "" THEN ch ELSE "auth_type"])
      [] m \in {"ip_add_prompt", "cred_add_prompt"} -> InvokedRuleAdd(m, ch)
      [] m \in {"ip_remove_prompt", "cred_remove_prompt"} ->
           \* lines 198-203 and 258-263
           IF ValidIndex(ch, menu_settings[RuleKind(m)])
           THEN Operation("update_security_settings",
                          RuleKind(m) :>
                            <<[sid |-> SelectedSid(menu_settings[RuleKind(m)],
                                                   IntOf(ch) - 1),
                               delete |-> TRUE]>>)
           ELSE NoOperation
      [] m = "sub_create_prompt" ->
           \* lines 375-377
           IF ch # "0" THEN Operation("create_subaccount", ch) ELSE NoOperation
      [] m = "sub_switch_select" ->
           \* lines 421-428
           IF ch # "0" /\ ValidIndex(ch, subaccounts)
           THEN Operation("switch_account",
                          SelectedSid(subaccounts, IntOf(ch) - 1))
           ELSE NoOperation
      [] m = "sub_close_confirm" ->
           \* lines 491-493
           IF Confirmed(ch)
           THEN Operation("close_subaccount", SelectedSid(subaccounts, idx))
           ELSE NoOperation
      [] m = "webhook_url_prompt" ->
           \* lines 574-587; choice is the webhook_choice of line 570
           IF ch # "0"
           THEN Operation("set_webhook", [webhook_choice |-> choice, url |-> ch])
           ELSE NoOperation
      [] m = "sandbox_menu" ->
           \* lines 637-640
           IF ch \in {"1", "2"}
           THEN Operation("update_sandbox_setting",
                          IF ch = "1" THEN "debug" ELSE "test_mode")
           ELSE NoOperation
      [] m = "sandbox_env_select" ->
           \* lines 656-663
           IF ch \in {"1", "2", "3"}
           THEN Operation("update_sandbox_setting", "environment")
           ELSE NoOperation
      [] m = "key_create_prompt" ->
           \* lines 706-708
           IF ch # "0" THEN Operation("create_api_key", ch) ELSE NoOperation
      [] m = "key_revoke_confirm" ->
           \* lines 763-765
           IF Confirmed(ch)
           THEN Operation("revoke_api_key", SelectedSid(api_keys, idx))
           ELSE NoOperation
      [] m = "import_data_prompt" ->
           \* lines 1009-1016
           IF ch # "0"
           THEN Operation("import_config", [config_data |-> ch])
           ELSE NoOperation
      [] OTHER -> NoOperation

\* how a call of the gateway ends for its caller
Outcome(out) ==
    IF out.raised # "none" THEN "raise"
    ELSE IF out.result.success THEN "success" ELSE "failure"

\* the ways the invoked operation can end: SettingsFlow hands
\* update_security_settings to the gateway method of lines 667-712; the other
\* operations return a tagged result
Outcomes(operation) ==
    CASE operation.op = "none" -> {"none"}
      [] operation.op = "update_security_settings" ->
           {Outcome(update_security_settings(fail, operation.arg)) :
               fail \in FailInputs}
      [] OTHER -> {"success", "failure"}

\* the branch of SettingsNext(m, ch) the locals of the menu select; where the
\* result of a use case selects it, every branch is possible
Feasible(m, ch, next) ==
    CASE m = "sub_menu" /\ ch \in {"1", "3", "4"} ->
           \* lines 345, 402, 454: if not subaccounts
           (next = "sub_none_prompt") <=> (subaccounts = <<>>)
      [] m = "sub_switch_select" /\ ch # "0" /\ IsIndexInput(ch) ->
           (next = "sub_result_prompt") <=> ValidIndex(ch, subaccounts)
      [] m = "sub_close_select" /\ ch # "0" /\ IsIndexInput(ch) ->
           (next = "sub_close_confirm") <=> ValidIndex(ch, subaccounts)
      [] m = "keys_menu" /\ ch = "2" ->
           \* line 736: key_choice == "2" and api_keys
           (next = "key_revoke_select") <=> (api_keys # <<>>)
      [] m = "key_revoke_select" /\ ch # "0" /\ IsIndexInput(ch) ->
           (next = "key_revoke_confirm") <=> ValidIndex(ch, api_keys)
      [] OTHER -> TRUE

\* the provider's lists once the invoked operation has ended: a successful
\* add has created one entry
RulesAfter(rules, m, operation, outcome) ==
    IF m \in {"ip_add_prompt", "cred_add_prompt"} /\ outcome = "success"
    THEN [rules EXCEPT ![RuleKind(m)] =
              Append(@, [sid |-> Len(@) + 1])]
    ELSE rules

\* lines 152-157 and 212-217: the inner loops render the settings fetched at
\* line 60 by the enclosing loop
SnapshotAfter(snapshot, rules, m) == snapshot

\* the locals of SettingsMenu.show after the input ch at prompt menu was
\* handled with the given outcome and the menu went on to next
PanelStep(ch, next, outcome) ==
    LET operation == Invoked(menu, ch)
    IN  /\ invoked' = IF operation.op = "none" THEN NoOperation
                      ELSE operation @@ [outcome |-> outcome]
        /\ subaccounts' \in
             IF next = "sub_menu" THEN EntryLists
             ELSE IF next \in SubaccountScope THEN {subaccounts}
             ELSE {<<>>}
        /\ api_keys' \in
             IF next = "keys_menu" THEN EntryLists
             ELSE IF next \in ApiKeyScope THEN {api_keys}
             ELSE {<<>>}
        /\ idx' = IF next \in ConfirmPrompts THEN IntOf(ch) - 1
                  ELSE IF menu \in ConfirmPrompts THEN idx
                  ELSE -1
        /\ menu_settings' \in
             IF next = "sec_menu" THEN SettingsRecords
             ELSE IF next \in SecurityScope
             THEN {SnapshotAfter(menu_settings,
                                 RulesAfter(provider_rules, menu, operation,
                                            outcome), menu)}
             ELSE {NoSettings}
        /\ provider_rules' =
             IF next = "sec_menu" THEN menu_settings'
             ELSE IF next \in SecurityScope
             THEN RulesAfter(provider_rules, menu, operation, outcome)
             ELSE NoSettings
        /\ logs' \in
             IF next \in LogViews /\ menu \notin LogViews THEN LogRows
             ELSE IF next \in LogViews THEN {logs}
             ELSE {<<>>}
        /\ current_page' =
             IF next \in LogViews /\ menu \notin LogViews THEN 1
             ELSE IF next \in LogViews
             THEN PageAfter(current_page, Len(logs), ch)
             ELSE 0

\* mutant: every exception is displayed and followed by the prompt
ExceptionHandlerAlwaysPrompt(m) == "error_prompt"

\* where an exception that is neither SystemExit nor KeyboardInterrupt goes:
\* lines 46-49 for the inner try, lines 53-55 otherwise
ExceptionHandler(m) ==
    IF m \in InnerTryPositions THEN "error_prompt" ELSE "exit_fatal"

\* line 37: a prompt of SettingsMenu.show is answered; an exception of the
\* invoked operation leaves show() for the handler of MainMenu.show
SettingsPrompt ==
    /\ pc = "idle" /\ menu \in SettingsPositions
    /\ \E ch \in MenuInputs : \E outcome \in Outcomes(Invoked(menu, ch)) :
         IF outcome = "raise"
         THEN /\ MenuMove(ExceptionHandler(menu), "exception", ch)
              /\ PanelStep(ch, ExceptionHandler(menu), outcome)
         ELSE /\ outcome = "success" /\ menu \in RuleMenus =>
                     Len(provider_rules[RuleKind(menu)]) < MaxRules
              /\ \E next \in SettingsNext(menu, ch) :
                   /\ Feasible(menu, ch, next)
                   /\ MenuMove(next, "input", ch)
                   /\ PanelStep(ch, next, outcome)

\* line 49: the prompt after an error is answered
ErrorPromptAnswer ==
    /\ pc = "idle" /\ menu = "error_prompt"
    /\ \E ch \in MenuInputs : MenuStep("main_render", "input", ch)

\* an Exception is raised at the current position
RaiseException ==
    /\ pc = "idle" /\ menu \in RunningPositions
    /\ MenuStep(ExceptionHandler(menu), "exception", choice)

\* where a KeyboardInterrupt goes: lines 50-52, from every position
InterruptHandler(m) == "exit_interrupt"

\* Ctrl+C at the current position
KeyboardInterrupt ==
    /\ pc = "idle" /\ menu \in RunningPositions
    /\ MenuStep(InterruptHandler(menu), "interrupt", choice)

Next ==
    \/ Construct
    \/ search_available_numbers
    \/ SendRequest
    \/ ReceiveResponse
    \/ Return
    \/ call_purchase_number
    \/ call_release_number
    \/ call_list_active_numbers
    \/ call_send_sms
    \/ call_make_call
    \/ call_get_messaging_logs
    \/ call_get_call_logs
    \/ call_get_number_config
    \/ call_get_number_metadata
    \/ call_get_subaccounts
    \/ call_create_subaccount
    \/ call_close_subaccount
    \/ call_get_account_details
    \/ call_get_account_balance
    \/ call_get_webhook_settings
    \/ call_set_webhook_settings
    \/ call_set_number_config
    \/ call_get_account_logs
    \/ call_get_security_settings
    \/ call_update_security_settings
    \/ call_get_system_logs
    \/ call_get_api_logs
    \/ call_get_security_logs
    \/ call_export_config
    \/ call_import_config
    \/ call_get_api_keys
    \/ call_create_api_key
    \/ call_revoke_api_key
    \/ MainRender
    \/ MainPrompt
    \/ SubMenuReturn
    \/ SettingsPrompt
    \/ ErrorPromptAnswer
    \/ RaiseException
    \/ KeyboardInterrupt

Spec == Init /\ [][Next]_vars

----------------------------------------------------------------------------
(* Properties of search_available_numbers *)

TransportFailures == {"timeout", "connection", "http_error", "bad_json"}

Built == pc = "built"

Returned == pc = "returned"

HasKey(d, k) == k \in DOMAIN d

\* the region of the country's table whose name equals r up to letter case
MatchesIgnoringCase(c, r) ==
    \E i \in 1..Len(RegionKeys(c)) : Lower(RegionKeys(c)[i]) = Lower(r)

\* the upstream candidates of the response being normalised
Upstream == Get(response.data, "available_phone_numbers", <<>>)

\* C1: when the HTTP search fails at transport level (timeout, connection
\* error, non-2xx status, unparseable body) the call returns success = false,
\* a non-empty error message and an empty numbers list, and no exception
\* reaches the caller.
C1_TransportFailureIsFailureResult ==
    (Returned /\ response.kind \in TransportFailures) =>
        /\ raised = "none"
        /\ HasKey(result, "success") /\ result.success = FALSE
        /\ HasKey(result, "error") /\ result.error # ""
        /\ HasKey(result, "numbers") /\ result.numbers = <<>>

C1_Witness ==
    /\ Returned /\ response.kind = "bad_json"
    /\ HasKey(result, "success") /\ result.success = FALSE

\* C2: for US or CA, a non-empty explicit area_code argument is the AreaCode
\* filter of the query, unchanged, whatever the pattern argument is.
C2_ExplicitAreaCodeKept ==
    (Built /\ country_code \in {"US", "CA"} /\ Truthy(area_code)) =>
        HasKey(params, "AreaCode") /\ params["AreaCode"] = area_code

\* C3: a non-empty pattern that is not purely numeric is carried verbatim as
\* the Contains filter, with no wildcard markers.
C3_NonNumericPatternVerbatim ==
    (Built /\ Truthy(pattern) /\ ~IsDigit(pattern)) =>
        HasKey(params, "Contains") /\ params["Contains"] = pattern

\* C4: for US or CA with no explicit area code, a pattern of exactly three
\* digits that is an area code of some region of the country gives AreaCode =
\* pattern and no Contains; one that is an area code of no region gives
\* Contains = '*' + pattern + '*' and no AreaCode.
C4_ThreeDigitPatternClassified ==
    (Built /\ country_code \in {"US", "CA"} /\ ~Truthy(area_code)
       /\ Len(pattern) = 3 /\ IsDigit(pattern)) =>
        IF \E i \in 1..Len(COUNTRY_DATA[country_code].regions) :
              PyInt(pattern) \in COUNTRY_DATA[country_code].regions[i].area_codes
        THEN /\ HasKey(params, "AreaCode") /\ params["AreaCode"] = pattern
             /\ ~HasKey(params, "Contains")
        ELSE /\ HasKey(params, "Contains")
             /\ params["Contains"] = <<"*">> \o pattern \o <<"*">>
             /\ ~HasKey(params, "AreaCode")

C4_Witness ==
    /\ Built /\ country_code = "CA" /\ ~Truthy(area_code)
    /\ pattern = <<"2","2","6">>
    /\ HasKey(params, "AreaCode") /\ ~HasKey(params, "Contains")

\* a three-digit US/CA pattern that is an area code of the country
TakenAsAreaCode ==
    /\ country_code \in {"US", "CA"}
    /\ Len(pattern) = 3
    /\ \E i \in 1..Len(COUNTRY_DATA[country_code].regions) :
          PyInt(pattern) \in COUNTRY_DATA[country_code].regions[i].area_codes

\* C5: for every country, a purely numeric pattern not taken as a US/CA
\* three-digit area code gives Contains = '*' + pattern + '*' when it has 7
\* digits or fewer and Contains = pattern when it has 8 digits or more.
C5_NumericPatternWrapBoundary ==
    (Built /\ IsDigit(pattern) /\ ~TakenAsAreaCode) =>
        /\ HasKey(params, "Contains")
        /\ params["Contains"] = IF Len(pattern) <= 7
                                THEN <<"*">> \o pattern \o <<"*">>
                                ELSE pattern

C5_Witness ==
    /\ Built /\ IsDigit(pattern) /\ Len(pattern) = 7
    /\ HasKey(params, "Contains")
    /\ params["Contains"] = <<"*">> \o pattern \o <<"*">>

\* C6: for US and CA, a region name of the table supplied in any casing
\* yields the same InRegion code as the name in the table's casing.
C6_RegionCodeIgnoresCasing ==
    (Built /\ country_code \in {"US", "CA"}) =>
        \A i \in 1..Len(RegionKeys(country_code)) :
            Lower(region) = Lower(RegionKeys(country_code)[i]) =>
                /\ HasKey(params, "InRegion")
                /\ params["InRegion"] =
                     RegionFilter(EmptyDict, country_code,
                                  RegionKeys(country_code)[i])["InRegion"]

\* C7: for GB, a region argument that matches no region name of the table,
\* even ignoring case, leaves the query without InRegion; nothing is raised
\* and no default region is substituted.
C7_UnmatchedGBRegionOmitted ==
    (Built /\ country_code = "GB" /\ Truthy(region)
       /\ ~MatchesIgnoringCase("GB", region)) =>
        ~HasKey(params, "InRegion") /\ raised = "none"

C7_Witness ==
    /\ Built /\ country_code = "GB" /\ region = UnknownRegion
    /\ ~HasKey(params, "InRegion")

\* C8: for a country other than the exact-name country (GB) and the
\* coded-region country (US), such as AU or CA, a region argument that is a
\* key of the table with a stored code yields InRegion = that code, and in
\* every other case the query has no InRegion.
C8_OtherCountryRegionCode ==
    (Built /\ country_code \notin {"GB", "US"} /\ Truthy(region)) =>
        IF HasRegion(country_code, region)
             /\ Truthy(RegionData(country_code, region).code)
        THEN /\ HasKey(params, "InRegion")
             /\ params["InRegion"] = RegionData(country_code, region).code
        ELSE ~HasKey(params, "InRegion")

\* C9: every record of a successful search has the flags voice, sms and mms
\* as booleans, false where the upstream candidate omits the flag or the
\* whole capabilities object, and a price that is "0.00" where the upstream
\* candidate omits the monthly fee.
C9_RecordDefaults ==
    (Returned /\ response.kind = "ok") =>
        /\ HasKey(result, "numbers")
        /\ Len(result.numbers) = Len(Upstream)
        /\ \A i \in 1..Len(Upstream) :
             LET num == Upstream[i]
                 rec == result.numbers[i]
             IN  /\ \A f \in {"voice", "sms", "mms"} :
                       /\ rec.capabilities[f] \in BOOLEAN
                       /\ (~HasKey(num, "capabilities")
                             \/ ~HasKey(num["capabilities"], f)) =>
                              rec.capabilities[f] = FALSE
                 /\ ~HasKey(num, "monthly_fee") => rec.price = "0.00"

C9_Witness ==
    /\ Returned /\ response.kind = "ok" /\ Len(Upstream) = 2
    /\ ~HasKey(Upstream[1], "capabilities")
    /\ HasKey(Upstream[2], "capabilities")
    /\ ~HasKey(Upstream[2]["capabilities"], "sms")
    /\ ~HasKey(Upstream[2], "monthly_fee")
    /\ result.numbers[1].capabilities.voice = FALSE
    /\ result.numbers[2].capabilities.sms = FALSE
    /\ result.numbers[2].price = "0.00"

\* C10: for US or CA the state label of each record is the name of the
\* table region whose code equals the region code the provider returned, and
\* the raw provider code when no region has that code; for every other
\* country it is the provider's region field verbatim.
C10_StateLabel ==
    (Returned /\ response.kind = "ok") =>
        /\ Len(result.numbers) = Len(Upstream)
        /\ \A i \in 1..Len(Upstream) :
             LET api == Get(Upstream[i], "region", EmptyStr)
                 regions == COUNTRY_DATA[country_code].regions
                 label == result.numbers[i].state
             IN  IF country_code \in {"US", "CA"}
                      /\ \E j \in 1..Len(regions) : regions[j].code = api
                 THEN \E j \in 1..Len(regions) :
                         regions[j].code = api /\ label = regions[j].name
                 ELSE label = api

C10_Witness ==
    /\ Returned /\ response.kind = "ok" /\ country_code = "US"
    /\ Len(Upstream) = 2
    /\ Get(Upstream[1], "region", EmptyStr) = <<"U","T">>
    /\ Get(Upstream[2], "region", EmptyStr) = <<"O","N">>
    /\ result.numbers[1].state = <<"U","t","a","h">>
    /\ result.numbers[2].state = <<"O","N">>

----------------------------------------------------------------------------
(* The pass-through methods *)

\* a provider call of the method that has returned raised
SomeCallFailed == \E i \in 1..Len(provider_calls) : ~provider_calls[i].ok

\* C11: whatever the outcome, a public method that returns hands back a
\* record with a boolean success flag.
C11_EveryResultHasSuccessFlag ==
    (Returned /\ raised = "none") =>
        HasKey(result, "success") /\ result["success"] \in BOOLEAN

\* C12: when a provider call made during export_config or import_config
\* fails, nested calls included, the method returns success = false.
C12_FailedProviderCallIsFailureResult ==
    (Returned /\ method \in {"export_config", "import_config"}
       /\ SomeCallFailed) =>
        /\ raised = "none"
        /\ HasKey(result, "success") /\ result["success"] = FALSE

\* the payload field of the methods whose payload is a collection
PayloadField ==
    [list_active_numbers  |-> "numbers",
     get_messaging_logs   |-> "messages",
     get_call_logs        |-> "calls",
     get_subaccounts      |-> "accounts",
     get_api_keys         |-> "keys",
     get_system_logs      |-> "logs",
     get_api_logs         |-> "logs",
     get_security_logs    |-> "logs",
     get_webhook_settings |-> "webhooks"]

\* C13: the failure result a collection method returns on a provider error
\* has success = false, an error message and the payload field, empty.
C13_FailureCarriesEmptyPayload ==
    (Returned /\ method \in DOMAIN PayloadField /\ SomeCallFailed
       /\ HasKey(result, "success") /\ result["success"] = FALSE) =>
        /\ HasKey(result, "error")
        /\ HasKey(result, PayloadField[method])
        /\ Len(result[PayloadField[method]]) = 0

\* C14: get_api_logs requests the fourteen categories, each once, in the
\* fixed order, whichever of them the provider rejects, and returns
\* success = true with the logs of exactly the categories that answered
\* with usage.
C14_ApiLogsSkipRejectedCategories ==
    (Returned /\ method = "get_api_logs") =>
        /\ Len(provider_calls) = Len(categories) /\ Len(categories) = 14
        /\ \A i \in 1..Len(provider_calls) :
               /\ provider_calls[i].call = "usage.records.list"
               /\ provider_calls[i].arg = categories[i]
        /\ raised = "none" /\ result.success = TRUE
        /\ {result.logs[k].category : k \in 1..Len(result.logs)} =
             {categories[i] : i \in {j \in 1..Len(categories) :
                 provider_calls[j].ok /\ IsActive(UsageRecords(j)[1])}}
        /\ \A k \in 1..(Len(result.logs) - 1) :
               result.logs[k].timestamp >= result.logs[k + 1].timestamp

C14_Witness ==
    /\ Returned /\ method = "get_api_logs" /\ SomeCallFailed
    /\ ~provider_calls[1].ok /\ provider_calls[Len(categories)].ok
    /\ Len(result.logs) > 1

----------------------------------------------------------------------------
(* MainMenu.show and SettingsMenu.show *)

\* C15: a keyboard interrupt at any point of MainMenu.show ends the process
\* with an exit status that differs from the status of the exit through
\* option 0 and from the status of the fatal-error exit.
C15_InterruptStatusDistinct ==
    (event = "interrupt") =>
        /\ menu = "exit_interrupt"
        /\ exit_status \notin {ExitStatus("exit_option0"),
                               ExitStatus("exit_fatal")}

\* C16 as stated: an exception raised anywhere in an iteration of the
\* outermost loop is displayed and followed by the prompt, and never ends
\* the process.
C16_ExceptionNeverTerminates ==
    (event = "exception") => menu = "error_prompt"

\* C16: an exception raised at the choice prompt or inside a sub-menu is
\* displayed and followed by a prompt, and the main menu is rendered again
\* once the prompt is answered; an exception raised while the main panel is
\* rendered or at that prompt ends the process with the fatal-error status.
C16_ExceptionInsideInnerTryContinues ==
    /\ (event = "exception" /\ prev_menu \in InnerTryPositions) =>
           menu = "error_prompt" /\ exit_status = -1
    /\ (event = "exception" /\ prev_menu \in OuterTryPositions) =>
           menu = "exit_fatal" /\ exit_status = 1
    /\ (event = "input" /\ prev_menu = "error_prompt") => menu = "main_render"

C16_Witness ==
    event = "exception" /\ prev_menu \in SettingsPositions
      /\ menu = "error_prompt"

\* the prompts whose panel offers the option 0 (Back, Cancel, No)
SelectionPrompts ==
    {"main_prompt", "settings_menu", "billing_prompt", "search_prompt",
     "diag_prompt", "sec_menu", "ip_menu", "cred_menu", "sec_logs_view",
     "sub_menu", "sub_list_prompt", "sub_create_prompt", "sub_switch_select",
     "sub_close_select", "sub_close_confirm", "dev_menu", "webhook_menu",
     "webhook_url_prompt", "sandbox_menu", "sandbox_env_select", "keys_menu",
     "key_create_prompt", "key_revoke_select", "key_revoke_confirm",
     "logs_menu", "logs_view", "config_menu", "export_format_select",
     "import_format_select", "import_data_prompt"}

\* the level that encloses the level of a selection prompt: the menu loop
\* whose handler opened it, the process for the main menu
Enclosing(m) ==
    CASE m = "main_prompt" -> {"exit_option0"}
      [] m = "settings_menu" -> {"main_render"}
      [] m \in {"billing_prompt", "search_prompt", "diag_prompt", "sec_menu",
                "sub_menu", "dev_menu", "logs_menu", "config_menu"} ->
           {"settings_menu"}
      [] m \in {"ip_menu", "cred_menu", "sec_logs_view"} -> SecurityLoop
      [] m \in {"sub_list_prompt", "sub_create_prompt", "sub_switch_select",
                "sub_close_select", "sub_close_confirm"} -> {"sub_menu"}
      [] m \in {"webhook_menu", "sandbox_menu", "keys_menu"} -> {"dev_menu"}
      [] m = "webhook_url_prompt" -> {"webhook_menu"}
      [] m = "sandbox_env_select" -> {"sandbox_menu"}
      [] m \in {"key_create_prompt", "key_revoke_select",
                "key_revoke_confirm"} -> {"keys_menu"}
      [] m = "logs_view" -> {"logs_menu"}
      [] m \in {"export_format_select", "import_format_select",
                "import_data_prompt"} -> {"config_menu"}

\* the deepest nesting of prompts below the main menu
MenuDepth == 4

\* the positions SettingsMenu.show can be at after n inputs "0" from one of
\* the positions S; the run ends when show() has returned to the main menu
RECURSIVE ZeroRun(_, _)
ZeroRun(S, n) ==
    IF n = 0 THEN S
    ELSE ZeroRun(UNION {IF m = "main_render" THEN {m} ELSE SettingsNext(m, "0") :
                           m \in S}, n - 1)

\* C17: "0" at a menu-selection prompt leaves the current level for its
\* enclosing level; from every selection prompt of SettingsMenu.show a run of
\* "0" inputs no longer than the nesting depth returns to the main menu, and
\* "0" at the main menu exits the process.
C17_ZeroLeavesOneLevel ==
    /\ (event = "input" /\ choice = "0" /\ prev_menu \in SelectionPrompts) =>
           menu \in Enclosing(prev_menu)
    /\ (menu \in SelectionPrompts \ {"main_prompt"}) =>
           ZeroRun({menu}, MenuDepth) = {"main_render"}
    /\ (event = "input" /\ choice = "0" /\ prev_menu = "main_prompt") =>
           menu = "exit_option0" /\ exit_status = 0

C17_Witness ==
    event = "input" /\ choice = "0" /\ prev_menu = "logs_view"
      /\ menu = "logs_menu"

----------------------------------------------------------------------------
(* Pagination, GB region, construction *)

\* C18: the query has Page = page and PageSize = limit whatever the filters,
\* and a successful search returns one record per upstream candidate, in
\* upstream order.
C18_PageSizeAndOneRecordPerCandidate ==
    /\ Built => params["Page"] = page /\ params["PageSize"] = limit
    /\ (Returned /\ response.kind = "ok") =>
           /\ result.success = TRUE
           /\ Len(result.numbers) = Len(Upstream)
           /\ \A i \in 1..Len(Upstream) :
                  result.numbers[i] =
                      FormatNumber(country_code, number_type, Upstream[i])

C18_Witness ==
    /\ Returned /\ response.kind = "ok" /\ Len(Upstream) = 2
    /\ Upstream[1] # Upstream[2]
    /\ result.numbers[1] # result.numbers[2]

\* C19: for GB a region that equals a table name up to letter case yields
\* InRegion = the table's name, never the caller's casing.
C19_GBCanonicalName ==
    (Built /\ country_code = "GB" /\ MatchesIgnoringCase("GB", region)) =>
        /\ HasKey(params, "InRegion")
        /\ params["InRegion"] \in {RegionKeys("GB")[i] :
                                      i \in 1..Len(RegionKeys("GB"))}
        /\ Lower(params["InRegion"]) = Lower(region)

C19_Witness ==
    /\ Built /\ country_code = "GB" /\ MatchesIgnoringCase("GB", region)
    /\ HasKey(params, "InRegion") /\ params["InRegion"] # region

\* C20: construction with a missing account identifier or token raises before
\* a client is created; a failing client creation raises; nothing else is
\* raised, and an instance has both credentials and a client.
C20_ConstructionRaisesOrCompletes ==
    /\ (pc # "start" /\ (account_sid = "" \/ auth_token = "")) =>
           /\ pc = "construct_failed" /\ raised = "ValueError"
           /\ provider_calls = <<>> /\ self_client = "none"
    /\ (pc = "construct_failed") =>
           /\ raised \in {"ValueError", "RuntimeError"}
           /\ raised = "RuntimeError" =>
                  /\ provider_calls = <<[call |-> "Client", arg |-> "", ok |-> FALSE]>>
                  /\ self_client = "none"
    /\ (pc \notin {"start", "construct_failed"}) =>
           /\ self_account_sid # "" /\ self_auth_token # ""
           /\ self_client = "Client"

C20_Witness ==
    pc = "construct_failed" /\ raised = "ValueError" /\ account_sid # ""
      /\ auth_token = ""

----------------------------------------------------------------------------
(* The reference table and the area-code filter *)

\* C21: the country table is never changed by a search: in every state it
\* equals the table loaded at process start.
C21_CountryDataUnchanged == country_data = COUNTRY_DATA

C21_Witness ==
    /\ Built /\ country_code = "US" /\ Len(pattern) = AreaCodeLen
    /\ HasKey(params, "AreaCode") /\ area_code = EmptyStr
    /\ country_data = COUNTRY_DATA

\* C27: a query has an AreaCode filter only for US and CA, and without an
\* explicit area_code argument it never has both AreaCode and Contains.
C27_AreaCodeOnlyUSCA ==
    Built =>
        /\ HasKey(params, "AreaCode") => country_code \in {"US", "CA"}
        /\ ~Truthy(area_code) =>
               ~(HasKey(params, "AreaCode") /\ HasKey(params, "Contains"))

C27_Witness ==
    /\ Built /\ country_code = "CA" /\ ~Truthy(area_code)
    /\ HasKey(params, "AreaCode") /\ ~HasKey(params, "Contains")

----------------------------------------------------------------------------
(* update_security_settings, set_webhook_settings, release_number,         *)
(* make_call                                                               *)

\* the positions, among the calls made, of the calls named name
CallsNamed(name) ==
    {j \in 1..Len(provider_calls) : provider_calls[j].call = name}

\* the entries of the settings that ask for a removal
RemovalEntries(settings) ==
    LET entries == Get(settings, "ip_access_rules", <<>>)
                     \o Get(settings, "credential_lists", <<>>)
    IN  {i \in 1..Len(entries) : "delete" \in DOMAIN entries[i]}

\* C25: for every settings record the settings menu builds,
\* update_security_settings returns a result with a success flag and raises
\* nothing, and a removal entry is carried out as a delete at the provider.
C25_SecurityUpdateNeverRaises ==
    (Returned /\ method = "update_security_settings") =>
        /\ raised = "none"
        /\ HasKey(result, "success")
        /\ (RemovalEntries(call_args.settings) # {} /\ ~SomeCallFailed) =>
               \E j \in 1..Len(provider_calls) :
                   provider_calls[j].call \in
                       {"sip.ip_access_control_lists.delete",
                        "sip.credential_lists.delete"}

\* the numbers whose webhook the provider has changed
Updated ==
    {provider_calls[j].arg :
        j \in {i \in CallsNamed("number.update") : provider_calls[i].ok}}

\* C26: set_webhook_settings makes no provider call for an unknown type and
\* no update for an account without numbers; otherwise it updates the
\* numbers in list order, and when the k-th update fails it returns a
\* failure, the first k-1 numbers are updated and the others are untouched.
C26_WebhookUpdateInOrderNoRollback ==
    (Returned /\ method = "set_webhook_settings") =>
        LET items   == call_args.items
            updates == CallsNamed("number.update")
        IN  /\ raised = "none"
            /\ call_args.webhook_type \notin WebhookTypes =>
                   provider_calls = <<>> /\ result.success = FALSE
            /\ (call_args.webhook_type \in WebhookTypes /\ items = <<>>) =>
                   updates = {} /\ result.success = FALSE
            /\ \A j \in updates :
                   /\ j - 1 \in 1..Len(items)
                   /\ provider_calls[j].arg = items[j - 1]
                   /\ \A i \in 2..(j - 1) : i \in updates /\ provider_calls[i].ok
            /\ \A j \in updates : ~provider_calls[j].ok =>
                   /\ result.success = FALSE
                   /\ j = Len(provider_calls)
                   /\ Updated = {items[i] : i \in 1..(j - 2)}
            /\ result.success =>
                   Updated = {items[i] : i \in 1..Len(items)}

C26_Witness ==
    /\ Returned /\ method = "set_webhook_settings"
    /\ Len(call_args.items) = 2
    /\ Len(provider_calls) = 3 /\ ~provider_calls[3].ok
    /\ Updated = {call_args.items[1]}

\* C28: release_number deletes at most one resource: none, with the failure
\* 'Number not found', when the lookup has no match; otherwise the first
\* match, and success is reported only after the delete has returned.
C28_ReleaseDeletesFirstMatchOnly ==
    (Returned /\ method = "release_number") =>
        LET items   == call_args.items
            deletes == CallsNamed("delete")
        IN  /\ Cardinality(deletes) <= 1
            /\ (items = <<>> /\ ~SomeCallFailed) =>
                   /\ deletes = {}
                   /\ result = Failure("Number not found")
            /\ items = <<>> => deletes = {}
            /\ \A j \in deletes : provider_calls[j].arg = items[1]
            /\ result.success =>
                   \E j \in deletes : provider_calls[j].ok

C28_Witness ==
    /\ Returned /\ method = "release_number"
    /\ Len(call_args.items) = 2 /\ result.success
    /\ provider_calls[2].call = "delete"
    /\ provider_calls[2].arg = call_args.items[1]

\* C29: make_call contacts the provider at most once and never without
\* instructions: with neither url nor twiml it returns a failure and makes
\* no call; with both, the url is sent and the twiml is not; with one, that
\* one is sent.
C29_CallInstructions ==
    (Returned /\ method = "make_call") =>
        LET url   == call_args.url
            twiml == call_args.twiml
        IN  /\ Len(provider_calls) <= 1
            /\ (url = "" /\ twiml = "") =>
                   provider_calls = <<>> /\ result.success = FALSE
            /\ (url # "" \/ twiml # "") => Len(provider_calls) = 1
            /\ url # "" =>
                   provider_calls[1].arg = [url |-> url]
            /\ (url = "" /\ twiml # "") =>
                   provider_calls[1].arg = [twiml |-> twiml]

C29_Witness ==
    /\ Returned /\ method = "make_call"
    /\ call_args.url # "" /\ call_args.twiml # ""
    /\ provider_calls[1].arg = [url |-> call_args.url]

----------------------------------------------------------------------------
(* SettingsMenu.show: confirmations, the back sentinel, table views, rule  *)
(* sub-menus                                                               *)

\* the last step handled an input of prompt m of SettingsMenu.show, to the
\* next prompt or to the exception of the operation it invoked
Answered(m) ==
    /\ prev_menu = m
    /\ event = "input" \/ (event = "exception" /\ invoked # NoOperation)

\* the list a confirmation prompt is about
ConfirmedList(m) == IF m = "sub_close_confirm" THEN subaccounts ELSE api_keys

\* the operation behind a confirmation prompt
ConfirmedOperation(m) ==
    IF m = "sub_close_confirm" THEN "close_subaccount" ELSE "revoke_api_key"

\* the selection prompt before a confirmation prompt
SelectPrompt(m) ==
    IF m = "sub_close_confirm" THEN "sub_close_select" ELSE "key_revoke_select"

\* C22: close_subaccount and revoke_api_key are invoked only by the answer
\* "1" to the confirmation prompt, which is shown only for an index inside
\* the displayed list; they get the sid of the selected entry; every other
\* answer to the selection or the confirmation invokes nothing.
C22_DestructiveOnlyAfterConfirmation ==
    /\ [](\A m \in ConfirmPrompts :
            /\ menu = m =>
                 /\ Answered(SelectPrompt(m))
                 /\ IsIndexInput(choice) /\ idx = IntOf(choice) - 1
                 /\ idx \in 0..(Len(ConfirmedList(m)) - 1)
            /\ Answered(SelectPrompt(m)) => invoked = NoOperation
            /\ (Answered(m) /\ choice # "1") => invoked = NoOperation
            /\ invoked.op = ConfirmedOperation(m) =>
                 Answered(m) /\ choice = "1")
    /\ [][\A m \in ConfirmPrompts :
            (menu = m /\ event' = "input" /\ choice' = "1") =>
                /\ invoked'.op = ConfirmedOperation(m)
                /\ invoked'.arg = ConfirmedList(m)[idx + 1].sid]_vars

C22_Witness ==
    /\ Answered("key_revoke_confirm") /\ choice = "1" /\ idx = 1
    /\ invoked.op = "revoke_api_key" /\ invoked.arg = Entries(2)[2].sid

\* the operations of the use-case object that change state
StateChanging ==
    {"update_security_settings", "create_subaccount", "set_webhook",
     "create_api_key", "import_config", "update_sandbox_setting",
     "switch_account", "close_subaccount", "revoke_api_key"}

\* C23: the input "0" at a prompt of SettingsMenu.show never invokes an
\* operation that changes state.
C23_BackSentinelInvokesNothing ==
    (choice = "0" /\ \E m \in SettingsPositions : Answered(m)) =>
        invoked.op \notin StateChanging

\* the current page of a table view is in range
PageInRange ==
    /\ current_page >= 1
    /\ current_page > 1 => (current_page - 1) * PageSize < Len(logs)

\* C24: in both table views the current page is at least 1 and, beyond page
\* 1, starts inside the rows; n moves to the next page only when that page
\* has rows, p moves to the previous page only above page 1, and every
\* other input leaves the page as it is.
C24_PageStaysInRange ==
    /\ [](menu \in LogViews => PageInRange)
    /\ [][(menu \in LogViews /\ menu' \in LogViews /\ event' = "input") =>
            CASE LowerChoice(choice') = "n" ->
                   current_page' =
                     IF current_page * PageSize < Len(logs)
                     THEN current_page + 1 ELSE current_page
              [] LowerChoice(choice') = "p" ->
                   current_page' =
                     IF current_page > 1 THEN current_page - 1
                     ELSE current_page
              [] OTHER -> current_page' = current_page /\ logs' = logs]_vars

C24_Witness ==
    /\ menu = "sec_logs_view" /\ Answered("sec_logs_view") /\ choice = "n"
    /\ Len(logs) = 2 * PageSize + 1 /\ current_page = 3

\* C30: the list the rule sub-menus display and index is the list the
\* provider holds, also after an add or a remove made inside the sub-menu.
C30_RuleMenuShowsCurrentList ==
    menu \in RuleMenus => menu_settings = provider_rules

====
